---- MODULE Spec2Model ----
(***************************************************************************)
(* Model of the TileGame rules engine: polyomino shapes and transforms,    *)
(* the placement validator, the board/scoring functions, the rule layer,   *)
(* the zustand game store, the level generator and the winnability         *)
(* checker.                                                                *)
(***************************************************************************)
EXTENDS Integers, Sequences, FiniteSets, TLC

(***************************************************************************)
(* Program constants                                                       *)
(***************************************************************************)
GRID_SIZE == 5

BOARD_CELLS == 25

HARD_MONOMINO_CAP == 1

Undefined == "undefined"

Null == "null"

Idx == 0..(GRID_SIZE - 1)

(***************************************************************************)
(* Bounds of the model                                                     *)
(***************************************************************************)
\* rows offered to placePiece are 0..MaxRow
MaxRow == 0

\* columns offered to placePiece are (GRID_SIZE - ColSpan)..(GRID_SIZE - 1)
ColSpan == 3

\* moveCount is capped: operations that count a move need moveCount < MaxMoves
MaxMoves == 3

(***************************************************************************)
(* Generic helpers on sequences                                            *)
(***************************************************************************)
RECURSIVE SumSeq(_)
SumSeq(s) == IF Len(s) = 0 THEN 0 ELSE Head(s) + SumSeq(Tail(s))

Range(s) == {s[i] : i \in 1..Len(s)}

MinOf(S) == CHOOSE m \in S : \A n \in S : m <= n

\* Array.prototype.filter with the predicate given as a set of accepted elements
RECURSIVE FilterSeq(_, _)
FilterSeq(s, keep) ==
    IF Len(s) = 0 THEN <<>>
    ELSE IF Head(s) \in keep THEN <<Head(s)>> \o FilterSeq(Tail(s), keep)
         ELSE FilterSeq(Tail(s), keep)

\* JavaScript remainder: the sign follows the dividend
JsRem(a, b) == IF a >= 0 THEN a % b ELSE 0 - ((0 - a) % b)

(***************************************************************************)
(* Shape library (polyominoes.ts)                                          *)
(***************************************************************************)
XY(px, py) == [x |-> px, y |-> py]

ALL_SHAPES == <<"I4", "O4", "T4", "L4", "S4", "I3", "L3", "I2", "I1">>

POLYOMINO_SHAPES ==
    [I4 |-> <<XY(0,0), XY(1,0), XY(2,0), XY(3,0)>>,
     O4 |-> <<XY(0,0), XY(1,0), XY(0,1), XY(1,1)>>,
     T4 |-> <<XY(1,0), XY(0,1), XY(1,1), XY(2,1)>>,
     L4 |-> <<XY(0,0), XY(0,1), XY(0,2), XY(1,2)>>,
     S4 |-> <<XY(1,0), XY(2,0), XY(0,1), XY(1,1)>>,
     I3 |-> <<XY(0,0), XY(1,0), XY(2,0)>>,
     L3 |-> <<XY(0,0), XY(0,1), XY(1,1)>>,
     I2 |-> <<XY(0,0), XY(1,0)>>,
     I1 |-> <<XY(0,0)>>]

getPolyominoShape(shape) == POLYOMINO_SHAPES[shape]

SHAPE_SIZES ==
    [I4 |-> 4, O4 |-> 4, T4 |-> 4, L4 |-> 4, S4 |-> 4,
     I3 |-> 3, L3 |-> 3, I2 |-> 2, I1 |-> 1]

(***************************************************************************)
(* Transform engine (transforms.ts)                                        *)
(***************************************************************************)
rotatePiece90(coords) ==
    [i \in 1..Len(coords) |-> XY(0 - coords[i].y, coords[i].x)]

flipHorizontal(coords) ==
    [i \in 1..Len(coords) |-> XY(0 - coords[i].x, coords[i].y)]

normalizeCoordinates(coords) ==
    IF Len(coords) = 0 THEN coords
    ELSE LET minX == MinOf({coords[i].x : i \in 1..Len(coords)})
             minY == MinOf({coords[i].y : i \in 1..Len(coords)})
         IN  [i \in 1..Len(coords) |-> XY(coords[i].x - minX, coords[i].y - minY)]

RECURSIVE rotateTimes(_, _)
rotateTimes(coords, n) ==
    IF n = 0 THEN coords ELSE rotateTimes(rotatePiece90(coords), n - 1)

\* a mutation of getTransformedShape: the remainder is not brought back above
\* zero, so a negative rotation runs the loop zero times
getTransformedShapeNoWrap(coords, rotation, flipped) ==
    LET start     == IF flipped THEN flipHorizontal(coords) ELSE coords
        rotations == JsRem(rotation, 360) \div 90
    IN  normalizeCoordinates(rotateTimes(start, IF rotations < 0 THEN 0 ELSE rotations))

getTransformedShape(coords, rotation, flipped) ==
    LET start     == IF flipped THEN flipHorizontal(coords) ELSE coords
        rotations == ((JsRem(rotation, 360) + 360) % 360) \div 90
    IN  normalizeCoordinates(rotateTimes(start, rotations))

applyTransform(coords, offsetX, offsetY) ==
    [i \in 1..Len(coords) |-> XY(coords[i].x + offsetX, coords[i].y + offsetY)]

(***************************************************************************)
(* Placement validator and board/scoring functions (placement.ts)          *)
(***************************************************************************)
getOccupiedCells(piece, row, col) ==
    applyTransform(
        getTransformedShape(getPolyominoShape(piece.shape), piece.rotation, piece.flipped),
        col, row)

InBounds(cell) ==
    ~(cell.x < 0 \/ cell.x >= 5 \/ cell.y < 0 \/ cell.y >= 5)

EmptyCell == [pieceId |-> Undefined, pieceValue |-> 0, pieceShape |-> Undefined]

EmptyBoard == [r \in Idx |-> [c \in Idx |-> EmptyCell]]

Truthy(pieceId) == pieceId # Undefined

\* the per-cell scan of isValidPlacement: the first violation met decides
RECURSIVE scanCells(_, _)
scanCells(cells, board) ==
    IF Len(cells) = 0 THEN "ok"
    ELSE IF ~InBounds(Head(cells)) THEN "Piece extends beyond board boundaries"
    ELSE IF Truthy(board[Head(cells).y][Head(cells).x].pieceId)
         THEN "Cell already occupied by another piece"
    ELSE scanCells(Tail(cells), board)

\* a mutation of isValidPlacement: the scan result is ignored
isValidPlacementNoScan(piece, row, col, board, monominoCount) ==
    LET occupiedCells == getOccupiedCells(piece, row, col)
    IN  IF piece.shape = "I1" /\ monominoCount >= HARD_MONOMINO_CAP
        THEN [valid |-> FALSE, reason |-> "Maximum 1 monomino allowed per level",
              occupiedCells |-> occupiedCells]
        ELSE [valid |-> TRUE, reason |-> Undefined, occupiedCells |-> occupiedCells]

isValidPlacement(piece, row, col, board, monominoCount) ==
    LET occupiedCells == getOccupiedCells(piece, row, col)
        scan          == scanCells(occupiedCells, board)
    IN  IF piece.shape = "I1" /\ monominoCount >= HARD_MONOMINO_CAP
        THEN [valid |-> FALSE, reason |-> "Maximum 1 monomino allowed per level",
              occupiedCells |-> occupiedCells]
        ELSE IF scan # "ok"
        THEN [valid |-> FALSE, reason |-> scan, occupiedCells |-> occupiedCells]
        ELSE [valid |-> TRUE, reason |-> Undefined, occupiedCells |-> occupiedCells]

\* the store's board before any level is loaded is the empty array
IsEmptyArray(b) == DOMAIN b = {}

getBoardCoverage(board) ==
    IF IsEmptyArray(board) THEN 0
    ELSE Cardinality({rc \in Idx \X Idx : Truthy(board[rc[1]][rc[2]].pieceId)})

\* a mutation of calculateSum: the reduce starts from the first value instead of 0
calculateSumSeeded(pieces) ==
    IF Len(pieces) = 0 THEN 0
    ELSE pieces[1].value + SumSeq([i \in 1..Len(pieces) |-> pieces[i].value])

calculateSum(pieces) == SumSeq([i \in 1..Len(pieces) |-> pieces[i].value])

\* a mutation of countMonominoes: the filter names the wrong shape
countMonominoesOfI2(pieces) ==
    Cardinality({i \in 1..Len(pieces) : pieces[i].shape = "I2"})

countMonominoes(pieces) ==
    Cardinality({i \in 1..Len(pieces) : pieces[i].shape = "I1"})

\* a mutation of isWinCondition: either condition alone counts as a win
isWinConditionEither(board, pieces, target) ==
    getBoardCoverage(board) = 25 \/ calculateSum(pieces) = target

isWinCondition(board, pieces, target) ==
    LET coverage == getBoardCoverage(board)
        sum      == calculateSum(pieces)
    IN  coverage = 25 /\ sum = target

removePieceFromBoard(board, pieceId) ==
    IF IsEmptyArray(board) THEN board
    ELSE [r \in Idx |-> [c \in Idx |->
            IF board[r][c].pieceId = pieceId THEN EmptyCell ELSE board[r][c]]]

\* a mutation of placePieceOnBoard: the old cells of the piece are not cleared
placePieceOnBoardNoClear(board, piece, row, col) ==
    LET cells == Range(getOccupiedCells(piece, row, col))
    IN  [r \in Idx |-> [c \in Idx |->
            IF XY(c, r) \in cells
            THEN [pieceId |-> piece.id, pieceValue |-> piece.value, pieceShape |-> piece.shape]
            ELSE board[r][c]]]

placePieceOnBoard(board, piece, row, col) ==
    LET cleared == [r \in Idx |-> [c \in Idx |->
                      IF board[r][c].pieceId = piece.id THEN EmptyCell ELSE board[r][c]]]
        cells   == Range(getOccupiedCells(piece, row, col))
    IN  [r \in Idx |-> [c \in Idx |->
            IF XY(c, r) \in cells
            THEN [pieceId |-> piece.id, pieceValue |-> piece.value, pieceShape |-> piece.shape]
            ELSE cleared[r][c]]]

(***************************************************************************)
(* Rule/feedback layer (gameRules.ts)                                      *)
(***************************************************************************)
Violation(type, severity, message) ==
    [type |-> type, severity |-> severity, message |-> message]

validateGameRules(piece, row, col, board, placed, level) ==
    LET cap            == level.constraints.monomino_cap
        monominoCount  == countMonominoes(placed)
        capViolation   ==
            IF piece.shape = "I1" /\ monominoCount >= cap
            THEN <<Violation("monomino_cap", "error",
                     "Maximum " \o ToString(cap) \o " monomino(s) allowed per level")>>
            ELSE <<>>
        placementResult == isValidPlacement(piece, row, col, board, monominoCount)
        placeViolation ==
            IF ~placementResult.valid
            THEN <<Violation(
                     IF placementResult.reason = "Piece extends beyond board boundaries"
                     THEN "boundary" ELSE "overlap",
                     "error", placementResult.reason)>>
            ELSE <<>>
        violations     == capViolation \o placeViolation
        capWarning     ==
            IF piece.shape = "I1" /\ monominoCount = cap - 1
            THEN <<Violation("monomino_cap", "warning",
                     "This will be your last allowed monomino")>>
            ELSE <<>>
        totalPlaced    == Len(placed) + (IF Len(violations) = 0 THEN 1 ELSE 0)
        remaining      == Len(level.bag) - totalPlaced
        leftWarning    ==
            IF remaining > level.constraints.max_leftovers
            THEN <<Violation("max_leftovers", "warning",
                     ToString(remaining) \o " pieces will remain unused (limit: "
                       \o ToString(level.constraints.max_leftovers) \o ")")>>
            ELSE <<>>
    IN  [valid |-> Len(violations) = 0,
         violations |-> violations,
         warnings |-> capWarning \o leftWarning]

generateMoveValidationFeedback(ruleCheck) ==
    IF Len(ruleCheck.violations) > 0
    THEN [message |-> ruleCheck.violations[1].message, type |-> "error"]
    ELSE IF Len(ruleCheck.warnings) > 0
    THEN [message |-> ruleCheck.warnings[1].message, type |-> "warning"]
    ELSE [message |-> "Valid placement!", type |-> "success"]

(***************************************************************************)
(* Game store (stores/gameStore.ts): state                                 *)
(***************************************************************************)
VARIABLES
    level, board, placedPieces, trayPieces,
    currentSum, coveredCells, monominoCount, isWon,
    lastMoveValid, lastMoveMessage, moveCount,
    pickedUpPiece, pickedUpPieceSource, grabPoint,
    call

storeVars == <<level, board, placedPieces, trayPieces,
               currentSum, coveredCells, monominoCount, isWon,
               lastMoveValid, lastMoveMessage, moveCount,
               pickedUpPiece, pickedUpPieceSource, grabPoint, call>>

\* the level generator and the winnability checker
VARIABLES
    gpc,             \* position in generateLevel / checkWinnability
    rng,             \* state of Math.random
    targetSum, decoyCount,
    solvedBoard, solvedPieces, pieceIdCounter,
    frames,          \* the activations of backtrack(), innermost last
    piecesCopy, assignedSum,
    genLevel,        \* the level returned by generateLevel, or null
    winResult        \* the result of checkWinnability(genLevel)

genVars == <<gpc, rng, targetSum, decoyCount, solvedBoard, solvedPieces,
             pieceIdCounter, frames, piecesCopy, assignedSum, genLevel, winResult>>

\* an isolated call of isWinCondition
VARIABLES fnPc, fnBoard, fnPieces, fnTarget, fnResult

winVars == <<fnPc, fnBoard, fnPieces, fnTarget, fnResult>>

\* an isolated call of isValidPlacement or validateGameRules
VARIABLES rlPc, rlPiece, rlRow, rlCol, rlBoard, rlPlaced, rlLevel, rlPlacement, rlCheck

rlVars == <<rlPc, rlPiece, rlRow, rlCol, rlBoard, rlPlaced, rlLevel, rlPlacement, rlCheck>>

\* an isolated call of checkWinnability on a hand-written level
VARIABLES ckPc, ckLevel, ckResult

ckVars == <<ckPc, ckLevel, ckResult>>

\* a shape turned step by step
VARIABLES
    trShape, trFlipped,
    trRotation,      \* the rotation passed to getTransformedShape
    trTurns,         \* 90-degree rotations applied so far
    trStart,         \* the coordinates of the starting orientation
    trCoords,        \* getTransformedShape at trRotation
    trTurned         \* trStart after trTurns times rotatePiece90 and normalizeCoordinates

trVars == <<trShape, trFlipped, trRotation, trTurns, trStart, trCoords, trTurned>>

\* the game-flow store
VARIABLES
    moveHistory, currentMoveIndex, gameStats, currentAnalysis,
    moveClock        \* Date.now() and Math.random() of the move ids: a fresh number

flowVars == <<moveHistory, currentMoveIndex, gameStats, currentAnalysis, moveClock>>

libVars == <<trVars, flowVars>>

fnVars == <<winVars, rlVars, ckVars, libVars>>

vars == <<storeVars, genVars, fnVars>>

NullLevel == [id |-> Null]

NullPiece == [id |-> Null]

GamePiece(id, shape, value, rotation, flipped) ==
    [id |-> id, shape |-> shape, value |-> value, rotation |-> rotation, flipped |-> flipped]

\* the GamePiece fields of a piece object (a PlacedPiece carries two more)
AsGamePiece(p) == GamePiece(p.id, p.shape, p.value, p.rotation, p.flipped)

ids(pieces) == {pieces[i].id : i \in 1..Len(pieces)}

\* a mutation of withoutId: nothing is filtered out
withoutIdKeepsAll(pieces, id) == pieces

\* Array.prototype.filter(p => p.id !== id)
withoutId(pieces, id) == FilterSeq(pieces, {p \in Range(pieces) : p.id # id})

\* Array.prototype.find(p => p.id === id)
findById(pieces, id) ==
    pieces[MinOf({i \in 1..Len(pieces) : pieces[i].id = id})]

\* the level the store is played with: two monominoes, a domino, monomino cap 1
StoreBag ==
    <<GamePiece("p1", "I1", 2, 0, FALSE),
      GamePiece("p2", "I2", 3, 0, FALSE),
      GamePiece("p3", "I1", 1, 0, FALSE)>>

StoreLevel ==
    [id |-> "test-level-1", target |-> 5,
     constraints |-> [monomino_cap |-> 1, max_leftovers |-> 5],
     bag |-> StoreBag]

StoreLevels == {StoreLevel}

Rows == 0..MaxRow

Cols == (GRID_SIZE - ColSpan)..(GRID_SIZE - 1)

\* the value returned by the last store call: placePiece returns a boolean, every
\* other action returns nothing
NoCall == [op |-> "void", id |-> Null, ret |-> TRUE]

Call(op, id, ret) == [op |-> op, id |-> id, ret |-> ret]

StoreInit ==
    /\ level = NullLevel
    /\ board = <<>>
    /\ placedPieces = <<>>
    /\ trayPieces = <<>>
    /\ currentSum = 0
    /\ coveredCells = 0
    /\ monominoCount = 0
    /\ isWon = FALSE
    /\ lastMoveValid = TRUE
    /\ lastMoveMessage = ""
    /\ moveCount = 0
    /\ pickedUpPiece = NullPiece
    /\ pickedUpPieceSource = Null
    /\ grabPoint = Null
    /\ call = NoCall

(***************************************************************************)
(* Game store: actions                                                     *)
(***************************************************************************)
\* the piece objects the UI can hand to placePiece: a tray piece, a piece
\* dragged from the board, or the piece in the picked-up holder
PieceInputs ==
    Range(trayPieces) \cup {AsGamePiece(p) : p \in Range(placedPieces)}
      \cup (IF pickedUpPiece = NullPiece THEN {} ELSE {pickedUpPiece})

AllIds == ids(StoreBag)

\* the pieces the player turns, and the 'r' (rotate) and 'f' (flip) requests
TransformIds == {"p2"}

TransformFlags == {<<TRUE, FALSE>>, <<FALSE, TRUE>>}

loadLevelState(lvl) ==
    /\ level' = lvl
    /\ board' = EmptyBoard
    /\ trayPieces' = lvl.bag
    /\ placedPieces' = <<>>
    /\ currentSum' = 0
    /\ coveredCells' = 0
    /\ monominoCount' = 0
    /\ isWon' = FALSE
    /\ lastMoveValid' = TRUE
    /\ lastMoveMessage' = ""
    /\ moveCount' = 0
    /\ pickedUpPiece' = NullPiece
    /\ pickedUpPieceSource' = Null
    /\ grabPoint' = Null

loadLevel(lvl) ==
    /\ loadLevelState(lvl)
    /\ call' = NoCall
    /\ UNCHANGED <<genVars, fnVars>>

\* a mutation of rejectPlacement: the rejected attempt is counted as a move
rejectPlacementCountsMove(pieceId, message) ==
    /\ lastMoveValid' = FALSE
    /\ lastMoveMessage' = message
    /\ moveCount' = moveCount + 1
    /\ call' = Call("placePiece", pieceId, FALSE)
    /\ UNCHANGED <<level, board, placedPieces, trayPieces, currentSum,
                   coveredCells, monominoCount, isWon,
                   pickedUpPiece, pickedUpPieceSource, grabPoint>>

\* the rejection branch of placePiece: only the last-move flag and message are set
rejectPlacement(pieceId, message) ==
    /\ lastMoveValid' = FALSE
    /\ lastMoveMessage' = message
    /\ call' = Call("placePiece", pieceId, FALSE)
    /\ UNCHANGED <<level, board, placedPieces, trayPieces, currentSum,
                   coveredCells, monominoCount, isWon, moveCount,
                   pickedUpPiece, pickedUpPieceSource, grabPoint>>

placePiece(piece, row, col) ==
    /\ moveCount < MaxMoves
    /\ IF level = NullLevel
       THEN /\ call' = Call("placePiece", piece.id, FALSE)
            /\ UNCHANGED <<level, board, placedPieces, trayPieces, currentSum,
                           coveredCells, monominoCount, isWon, lastMoveValid,
                           lastMoveMessage, moveCount, pickedUpPiece,
                           pickedUpPieceSource, grabPoint>>
       ELSE
         LET isRepositioning == pickedUpPieceSource = "board" \/ piece.id \in ids(placedPieces)
             validationPlacedPieces ==
                 IF isRepositioning THEN withoutId(placedPieces, piece.id) ELSE placedPieces
             ruleCheck == validateGameRules(piece, row, col, board, validationPlacedPieces, level)
             feedback  == generateMoveValidationFeedback(ruleCheck)
             newBoard  == placePieceOnBoard(board, piece, row, col)
             placedPiece == [id |-> piece.id, shape |-> piece.shape, value |-> piece.value,
                             rotation |-> piece.rotation, flipped |-> piece.flipped,
                             position |-> XY(col, row),
                             occupiedCells |-> getOccupiedCells(piece, row, col)]
             newPlacedPieces ==
                 IF isRepositioning
                 THEN Append(withoutId(placedPieces, piece.id), placedPiece)
                 ELSE Append(placedPieces, placedPiece)
             newTrayPieces ==
                 IF isRepositioning THEN trayPieces ELSE withoutId(trayPieces, piece.id)
         IN  IF ~ruleCheck.valid
             THEN rejectPlacement(piece.id, feedback.message)
             ELSE IF Len(newPlacedPieces) > Len(level.bag)
             THEN /\ call' = Call("placePiece", piece.id, FALSE)
                  /\ UNCHANGED <<level, board, placedPieces, trayPieces, currentSum,
                                 coveredCells, monominoCount, isWon, lastMoveValid,
                                 lastMoveMessage, moveCount, pickedUpPiece,
                                 pickedUpPieceSource, grabPoint>>
             ELSE /\ board' = newBoard
                  /\ placedPieces' = newPlacedPieces
                  /\ trayPieces' = newTrayPieces
                  /\ currentSum' = calculateSum(newPlacedPieces)
                  /\ coveredCells' = getBoardCoverage(newBoard)
                  /\ monominoCount' = countMonominoes(newPlacedPieces)
                  /\ isWon' = isWinCondition(newBoard, newPlacedPieces, level.target)
                  /\ lastMoveValid' = TRUE
                  /\ lastMoveMessage' = feedback.message
                  /\ moveCount' = moveCount + 1
                  /\ pickedUpPiece' = NullPiece
                  /\ pickedUpPieceSource' = Null
                  /\ grabPoint' = Null
                  /\ call' = Call("placePiece", piece.id, TRUE)
                  /\ UNCHANGED level
    /\ UNCHANGED <<genVars, fnVars>>

returnPieceToTray(pieceId) ==
    /\ moveCount < MaxMoves
    /\ IF pieceId \notin ids(placedPieces)
       THEN /\ call' = NoCall
            /\ UNCHANGED <<level, board, placedPieces, trayPieces, currentSum,
                           coveredCells, monominoCount, isWon, lastMoveValid,
                           lastMoveMessage, moveCount, pickedUpPiece,
                           pickedUpPieceSource, grabPoint>>
       ELSE
         LET placedPiece     == findById(placedPieces, pieceId)
             newBoard        == removePieceFromBoard(board, pieceId)
             newPlacedPieces == withoutId(placedPieces, pieceId)
             newTrayPieces   == Append(trayPieces, AsGamePiece(placedPiece))
         IN  /\ board' = newBoard
             /\ placedPieces' = newPlacedPieces
             /\ trayPieces' = newTrayPieces
             /\ currentSum' = calculateSum(newPlacedPieces)
             /\ coveredCells' = getBoardCoverage(newBoard)
             /\ monominoCount' = countMonominoes(newPlacedPieces)
             /\ isWon' = IF level # NullLevel
                         THEN isWinCondition(newBoard, newPlacedPieces, level.target)
                         ELSE FALSE
             /\ moveCount' = moveCount + 1
             /\ lastMoveValid' = TRUE
             /\ lastMoveMessage' = "Piece returned to tray"
             /\ call' = NoCall
             /\ UNCHANGED <<level, pickedUpPiece, pickedUpPieceSource, grabPoint>>
    /\ UNCHANGED <<genVars, fnVars>>

\* the map callback of transformPiece, applied to one piece object
transformOne(p, pieceId, rotate, flip) ==
    IF p.id = pieceId
    THEN [p EXCEPT !.rotation = IF rotate THEN (p.rotation + 90) % 360 ELSE p.rotation,
                   !.flipped  = IF flip THEN ~p.flipped ELSE p.flipped]
    ELSE p

transformPiece(pieceId, rotate, flip) ==
    /\ trayPieces' = [i \in 1..Len(trayPieces) |->
                        transformOne(trayPieces[i], pieceId, rotate, flip)]
    /\ placedPieces' = [i \in 1..Len(placedPieces) |->
                          transformOne(placedPieces[i], pieceId, rotate, flip)]
    /\ pickedUpPiece' = IF pickedUpPiece.id = pieceId
                        THEN transformOne(pickedUpPiece, pieceId, rotate, flip)
                        ELSE pickedUpPiece
    \* grabPoint is only transformed when one is held; no UI caller passes one
    /\ grabPoint' = grabPoint
    /\ call' = NoCall
    /\ UNCHANGED <<level, board, currentSum, coveredCells, monominoCount, isWon,
                   lastMoveValid, lastMoveMessage, moveCount, pickedUpPieceSource>>
    /\ UNCHANGED <<genVars, fnVars>>

resetGame ==
    /\ IF level # NullLevel
       THEN /\ loadLevelState(level)
            /\ call' = NoCall
       ELSE /\ call' = NoCall
            /\ UNCHANGED <<level, board, placedPieces, trayPieces, currentSum,
                           coveredCells, monominoCount, isWon, lastMoveValid,
                           lastMoveMessage, moveCount, pickedUpPiece,
                           pickedUpPieceSource, grabPoint>>
    /\ UNCHANGED <<genVars, fnVars>>

pickUpPiece(piece) ==
    /\ pickedUpPiece' = piece
    /\ pickedUpPieceSource' = "tray"
    /\ grabPoint' = Null
    /\ call' = NoCall
    /\ UNCHANGED <<level, board, placedPieces, trayPieces, currentSum, coveredCells,
                   monominoCount, isWon, lastMoveValid, lastMoveMessage, moveCount>>
    /\ UNCHANGED <<genVars, fnVars>>

pickUpPlacedPiece(pieceId) ==
    /\ moveCount < MaxMoves
    /\ IF pieceId \notin ids(placedPieces)
       THEN /\ call' = NoCall
            /\ UNCHANGED <<level, board, placedPieces, trayPieces, currentSum,
                           coveredCells, monominoCount, isWon, lastMoveValid,
                           lastMoveMessage, moveCount, pickedUpPiece,
                           pickedUpPieceSource, grabPoint>>
       ELSE
         LET placedPiece     == findById(placedPieces, pieceId)
             newBoard        == removePieceFromBoard(board, pieceId)
             newPlacedPieces == withoutId(placedPieces, pieceId)
         IN  /\ board' = newBoard
             /\ placedPieces' = newPlacedPieces
             /\ currentSum' = calculateSum(newPlacedPieces)
             /\ coveredCells' = getBoardCoverage(newBoard)
             /\ monominoCount' = countMonominoes(newPlacedPieces)
             /\ isWon' = IF level # NullLevel
                         THEN isWinCondition(newBoard, newPlacedPieces, level.target)
                         ELSE FALSE
             /\ moveCount' = moveCount + 1
             /\ pickedUpPiece' = AsGamePiece(placedPiece)
             /\ pickedUpPieceSource' = "board"
             /\ grabPoint' = Null
             /\ lastMoveValid' = TRUE
             /\ lastMoveMessage' = "Piece picked up from board"
             /\ call' = NoCall
             /\ UNCHANGED <<level, trayPieces>>
    /\ UNCHANGED <<genVars, fnVars>>

cancelPickup ==
    /\ pickedUpPiece' = NullPiece
    /\ pickedUpPieceSource' = Null
    /\ grabPoint' = Null
    /\ call' = NoCall
    /\ UNCHANGED <<level, board, placedPieces, trayPieces, currentSum, coveredCells,
                   monominoCount, isWon, lastMoveValid, lastMoveMessage, moveCount>>
    /\ UNCHANGED <<genVars, fnVars>>

returnPickedUpPieceToTray ==
    /\ IF pickedUpPiece = NullPiece
       THEN /\ call' = NoCall
            /\ UNCHANGED <<level, board, placedPieces, trayPieces, currentSum,
                           coveredCells, monominoCount, isWon, lastMoveValid,
                           lastMoveMessage, moveCount, pickedUpPiece,
                           pickedUpPieceSource, grabPoint>>
       ELSE IF pickedUpPiece.id \notin ids(trayPieces)
       THEN /\ trayPieces' = Append(trayPieces, pickedUpPiece)
            /\ pickedUpPiece' = NullPiece
            /\ pickedUpPieceSource' = Null
            /\ grabPoint' = Null
            /\ lastMoveValid' = TRUE
            /\ lastMoveMessage' = "Piece returned to tray"
            /\ call' = NoCall
            /\ UNCHANGED <<level, board, placedPieces, currentSum, coveredCells,
                           monominoCount, isWon, moveCount>>
       ELSE /\ pickedUpPiece' = NullPiece
            /\ pickedUpPieceSource' = Null
            /\ grabPoint' = Null
            /\ call' = NoCall
            /\ UNCHANGED <<level, board, placedPieces, trayPieces, currentSum,
                           coveredCells, monominoCount, isWon, lastMoveValid,
                           lastMoveMessage, moveCount>>
    /\ UNCHANGED <<genVars, fnVars>>

updateGameState ==
    /\ level # NullLevel
    /\ currentSum' = calculateSum(placedPieces)
    /\ coveredCells' = getBoardCoverage(board)
    /\ monominoCount' = countMonominoes(placedPieces)
    /\ isWon' = isWinCondition(board, placedPieces, level.target)
    /\ call' = NoCall
    /\ UNCHANGED <<level, board, placedPieces, trayPieces, lastMoveValid,
                   lastMoveMessage, moveCount, pickedUpPiece, pickedUpPieceSource,
                   grabPoint>>
    /\ UNCHANGED <<genVars, fnVars>>

StoreNext ==
    \/ \E lvl \in StoreLevels : loadLevel(lvl)
    \/ \E piece \in PieceInputs, row \in Rows, col \in Cols : placePiece(piece, row, col)
    \/ \E pieceId \in AllIds : returnPieceToTray(pieceId)
    \/ \E pieceId \in TransformIds, flags \in TransformFlags :
          transformPiece(pieceId, flags[1], flags[2])
    \/ resetGame
    \/ \E piece \in Range(trayPieces) : pickUpPiece(piece)
    \/ \E pieceId \in AllIds : pickUpPlacedPiece(pieceId)
    \/ cancelPickup
    \/ returnPickedUpPieceToTray
    \/ updateGameState

(***************************************************************************)
(* Math.random: a linear congruential generator whose seed is not known.   *)
(* Math.floor(Math.random() * n) is randomInt of the advanced state.       *)
(***************************************************************************)
RNG_M == 101

RNG_A == 3

RNG_C == 13

\* seeds of the generator are 0..(MaxSeed - 1)
MaxSeed == 3

\* decoyCount arguments are 0..MaxDecoys
MaxDecoys == 2

rngNext(x) == (RNG_A * x + RNG_C) % RNG_M

randomInt(x, n) == (x * n) \div RNG_M

\* Math.random() < 0.6
randomBelow06(x) == x * 10 < 6 * RNG_M

swap(arr, i, j) == [arr EXCEPT ![i] = arr[j], ![j] = arr[i]]

\* shuffleArray: Fisher-Yates from the last index down; i is the 1-based index
RECURSIVE shuffleFrom(_, _, _)
shuffleFrom(arr, i, x) ==
    IF i < 2 THEN [arr |-> arr, rng |-> x]
    ELSE LET x1 == rngNext(x)
             j  == randomInt(x1, i) + 1
         IN  shuffleFrom(swap(arr, i, j), i - 1, x1)

shuffleArray(arr, x) == shuffleFrom(arr, Len(arr), x)

(***************************************************************************)
(* Level generator (levelGenerator.ts): state                              *)
(***************************************************************************)
Targets == {5, 28, 30, 100}

NoResult == [confidence |-> Null]

GenIdle ==
    /\ gpc = "idle"
    /\ rng = 0
    /\ targetSum = 0
    /\ decoyCount = 0
    /\ solvedBoard = <<>>
    /\ solvedPieces = <<>>
    /\ pieceIdCounter = 0
    /\ frames = <<>>
    /\ piecesCopy = <<>>
    /\ assignedSum = 0
    /\ genLevel = NullLevel
    /\ winResult = NoResult

GenInit ==
    /\ gpc = "enter"
    /\ rng \in 0..(MaxSeed - 1)
    /\ targetSum \in Targets
    /\ decoyCount \in 0..MaxDecoys
    /\ solvedBoard = EmptyBoard
    /\ solvedPieces = <<>>
    /\ pieceIdCounter = 1
    /\ frames = <<>>
    /\ piecesCopy = <<>>
    /\ assignedSum = 0
    /\ genLevel = NullLevel
    /\ winResult = NoResult

(***************************************************************************)
(* generateSolvedBoard: the backtracking tiler                             *)
(***************************************************************************)
\* marks the cell at which canPlacePiece gave up
NoCell == XY(0 - 1, 0 - 1)

\* canPlacePiece of generateSolvedBoard; <<>> stands for null
RECURSIVE genScan(_, _, _, _)
genScan(brd, coords, row, col) ==
    IF Len(coords) = 0 THEN <<>>
    ELSE LET boardRow == row + Head(coords).y
             boardCol == col + Head(coords).x
         IN  IF boardRow < 0 \/ boardRow >= 5 \/ boardCol < 0 \/ boardCol >= 5
             THEN <<NoCell>>
             ELSE IF Truthy(brd[boardRow][boardCol].pieceId)
             THEN <<NoCell>>
             ELSE <<XY(boardCol, boardRow)>> \o genScan(brd, Tail(coords), row, col)

genCanPlacePiece(brd, shape, row, col, rotation, flipped) ==
    LET scanned == genScan(brd, getTransformedShape(POLYOMINO_SHAPES[shape], rotation, flipped),
                           row, col)
    IN  IF NoCell \in Range(scanned) THEN <<>> ELSE scanned

\* a mutation of the tiler's placePiece: the position is recorded as (row, col)
genPlacedPieceTransposed(id, shape, row, col, rotation, flipped, occupiedCells) ==
    [id |-> id, shape |-> shape, value |-> 0, rotation |-> rotation, flipped |-> flipped,
     position |-> XY(row, col), occupiedCells |-> occupiedCells]

genPlacedPiece(id, shape, row, col, rotation, flipped, occupiedCells) ==
    [id |-> id, shape |-> shape, value |-> 0, rotation |-> rotation, flipped |-> flipped,
     position |-> XY(col, row), occupiedCells |-> occupiedCells]

\* the board writes of the tiler's placePiece
genStamp(brd, pieceId, shape, occupiedCells) ==
    [r \in Idx |-> [c \in Idx |->
        IF XY(c, r) \in Range(occupiedCells)
        THEN [brd[r][c] EXCEPT !.pieceId = pieceId, !.pieceShape = shape]
        ELSE brd[r][c]]]

\* a mutation of the tiler's removePiece: the cells are left as they are
genClearNothing(brd, occupiedCells) == brd

\* the board writes of the tiler's removePiece
genClear(brd, occupiedCells) ==
    [r \in Idx |-> [c \in Idx |->
        IF XY(c, r) \in Range(occupiedCells) THEN EmptyCell ELSE brd[r][c]]]

getEmptyCells(brd) ==
    Cardinality({rc \in Idx \X Idx : ~Truthy(brd[rc[1]][rc[2]].pieceId)})

\* the first empty cell in row-major order, as the index row * 5 + col
firstEmpty(brd) ==
    MinOf({n \in 0..24 : ~Truthy(brd[n \div 5][n % 5].pieceId)})

\* a mutation of shapesToTry: the size filter compares the wrong way round
shapesToTryTooLarge(emptyCells) ==
    IF emptyCells = 1 THEN <<"I1">>
    ELSE IF emptyCells = 2 THEN <<"I2", "I1">>
    ELSE IF emptyCells = 3 THEN <<"I3", "L3", "I2", "I1">>
    ELSE FilterSeq(ALL_SHAPES, {sh \in Range(ALL_SHAPES) : SHAPE_SIZES[sh] >= emptyCells})

shapesToTry(emptyCells) ==
    IF emptyCells = 1 THEN <<"I1">>
    ELSE IF emptyCells = 2 THEN <<"I2", "I1">>
    ELSE IF emptyCells = 3 THEN <<"I3", "L3", "I2", "I1">>
    ELSE FilterSeq(ALL_SHAPES, {sh \in Range(ALL_SHAPES) : SHAPE_SIZES[sh] <= emptyCells})

filteredShapes(emptyCells, placed) ==
    FilterSeq(shapesToTry(emptyCells),
              {sh \in Range(ALL_SHAPES) : sh # "I1" \/ countMonominoes(placed) < 1})

Opt(shape, rotation, flipped) == [shape |-> shape, rotation |-> rotation, flipped |-> flipped]

optionsOf(shape) ==
    IF shape = "O4" THEN <<Opt(shape, 0, FALSE)>>
    ELSE <<Opt(shape, 0, FALSE), Opt(shape, 0, TRUE), Opt(shape, 90, FALSE), Opt(shape, 90, TRUE),
           Opt(shape, 180, FALSE), Opt(shape, 180, TRUE), Opt(shape, 270, FALSE), Opt(shape, 270, TRUE)>>

\* the nested loops of backtrack over shape, rotation and flip, in order
RECURSIVE allOptions(_)
allOptions(shapes) ==
    IF Len(shapes) = 0 THEN <<>> ELSE optionsOf(Head(shapes)) \o allOptions(Tail(shapes))

Frame(row, col, shapes, k) == [row |-> row, col |-> col, shapes |-> shapes, k |-> k]

\* backtrack() is entered: success on a full board, else the loops start at the
\* first empty cell with the shuffled shapes
backtrackEnter ==
    /\ gpc = "enter"
    /\ LET emptyCells == getEmptyCells(solvedBoard)
       IN  IF emptyCells = 0
           THEN /\ gpc' = "tiled"
                /\ frames' = <<>>
                /\ rng' = rng
           ELSE LET cell     == firstEmpty(solvedBoard)
                    shuffled == shuffleArray(filteredShapes(emptyCells, solvedPieces), rng)
                IN  /\ frames' = Append(frames, Frame(cell \div 5, cell % 5, shuffled.arr, 0))
                    /\ rng' = shuffled.rng
                    /\ gpc' = "try"
    /\ UNCHANGED <<targetSum, decoyCount, solvedBoard, solvedPieces, pieceIdCounter,
                   piecesCopy, assignedSum, genLevel, winResult>>
    /\ UNCHANGED <<storeVars, fnVars>>

\* the loops advance to the next option canPlacePiece accepts and place it; when
\* none is left backtrack() returns false
backtrackTry ==
    /\ gpc = "try"
    /\ LET f       == frames[Len(frames)]
           options == allOptions(f.shapes)
           fits    == {k \in (f.k + 1)..Len(options) :
                          genCanPlacePiece(solvedBoard, options[k].shape, f.row, f.col,
                                           options[k].rotation, options[k].flipped) # <<>>}
       IN  IF fits # {}
           THEN LET k       == MinOf(fits)
                    o       == options[k]
                    cells   == genCanPlacePiece(solvedBoard, o.shape, f.row, f.col,
                                                o.rotation, o.flipped)
                    pieceId == "p" \o ToString(pieceIdCounter)
                IN  /\ solvedBoard' = genStamp(solvedBoard, pieceId, o.shape, cells)
                    /\ solvedPieces' = Append(solvedPieces,
                          genPlacedPiece(pieceId, o.shape, f.row, f.col, o.rotation, o.flipped, cells))
                    /\ pieceIdCounter' = pieceIdCounter + 1
                    /\ frames' = [frames EXCEPT ![Len(frames)].k = k]
                    /\ gpc' = "enter"
                    /\ genLevel' = genLevel
           ELSE /\ frames' = SubSeq(frames, 1, Len(frames) - 1)
                /\ gpc' = IF Len(frames) = 1 THEN "done" ELSE "remove"
                /\ genLevel' = NullLevel
                /\ UNCHANGED <<solvedBoard, solvedPieces, pieceIdCounter>>
    /\ UNCHANGED <<rng, targetSum, decoyCount, piecesCopy, assignedSum, winResult>>
    /\ UNCHANGED <<storeVars, fnVars>>

\* the recursive call returned false: removePiece(placedPieces[placedPieces.length - 1])
backtrackRemove ==
    /\ gpc = "remove"
    /\ LET piece == solvedPieces[Len(solvedPieces)]
       IN  /\ solvedBoard' = genClear(solvedBoard, piece.occupiedCells)
           /\ solvedPieces' = SubSeq(solvedPieces, 1, Len(solvedPieces) - 1)
           /\ pieceIdCounter' = pieceIdCounter - 1
    /\ gpc' = "try"
    /\ UNCHANGED <<rng, targetSum, decoyCount, frames, piecesCopy, assignedSum,
                   genLevel, winResult>>
    /\ UNCHANGED <<storeVars, fnVars>>

(***************************************************************************)
(* assignPieceValues, extractPuzzleBag, addDecoyPieces, generateLevel       *)
(***************************************************************************)
MinNum(a, b) == IF a < b THEN a ELSE b

totalCellsOf(pieces) == SumSeq([i \in 1..Len(pieces) |-> Len(pieces[i].occupiedCells)])

\* generateLevel calls assignPieceValues: its two checks throw, and generateLevel
\* returns null from the catch; otherwise every copy starts at value 1
assignStart ==
    /\ gpc = "tiled"
    /\ IF totalCellsOf(solvedPieces) # 25
          \/ targetSum < Len(solvedPieces) \/ targetSum > Len(solvedPieces) * 9
       THEN /\ gpc' = "done"
            /\ genLevel' = NullLevel
            /\ UNCHANGED <<piecesCopy, assignedSum>>
       ELSE /\ piecesCopy' = [i \in 1..Len(solvedPieces) |->
                                 [solvedPieces[i] EXCEPT !.value = 1]]
            /\ assignedSum' = Len(solvedPieces)
            /\ gpc' = "assign"
            /\ genLevel' = genLevel
    /\ UNCHANGED <<rng, targetSum, decoyCount, solvedBoard, solvedPieces,
                   pieceIdCounter, frames, winResult>>
    /\ UNCHANGED <<storeVars, fnVars>>

\* one iteration of while (currentSum < targetSum)
assignStep ==
    /\ gpc = "assign"
    /\ assignedSum < targetSum
    /\ LET x1 == rngNext(rng)
           i  == randomInt(x1, Len(piecesCopy)) + 1
       IN  IF piecesCopy[i].value < 9
           THEN LET maxIncrease == MinNum(9 - piecesCopy[i].value, targetSum - assignedSum)
                    x2          == rngNext(x1)
                    increase    == randomInt(x2, maxIncrease) + 1
                IN  /\ piecesCopy' = [piecesCopy EXCEPT ![i].value = @ + increase]
                    /\ assignedSum' = assignedSum + increase
                    /\ rng' = x2
           ELSE /\ rng' = x1
                /\ UNCHANGED <<piecesCopy, assignedSum>>
    /\ UNCHANGED <<gpc, targetSum, decoyCount, solvedBoard, solvedPieces,
                   pieceIdCounter, frames, genLevel, winResult>>
    /\ UNCHANGED <<storeVars, fnVars>>

\* a mutation of the skew: the transfer is taken from the high piece and not
\* given to the low one
RECURSIVE skewFromLossy(_, _, _)
skewFromLossy(arr, i, x) ==
    IF i > Len(arr) THEN [arr |-> arr, rng |-> x]
    ELSE IF arr[i].value > 4
    THEN LET x1     == rngNext(x)
             others == {k \in 1..Len(arr) : arr[k].id # arr[i].id /\ arr[k].value < 4}
         IN  IF randomBelow06(x1) /\ others # {}
             THEN LET k        == MinOf(others)
                      transfer == MinNum(arr[i].value - 4, 4 - arr[k].value)
                  IN  skewFromLossy([arr EXCEPT ![i].value = @ - transfer], i + 1, x1)
             ELSE skewFromLossy(arr, i + 1, x1)
    ELSE skewFromLossy(arr, i + 1, x)

\* the low-value skew: piecesCopy.map over index i, mutating the copies in place
RECURSIVE skewFrom(_, _, _)
skewFrom(arr, i, x) ==
    IF i > Len(arr) THEN [arr |-> arr, rng |-> x]
    ELSE IF arr[i].value > 4
    THEN LET x1     == rngNext(x)
             others == {k \in 1..Len(arr) : arr[k].id # arr[i].id /\ arr[k].value < 4}
         IN  IF randomBelow06(x1) /\ others # {}
             THEN LET k        == MinOf(others)
                      transfer == MinNum(arr[i].value - 4, 4 - arr[k].value)
                  IN  skewFrom([arr EXCEPT ![i].value = @ - transfer,
                                           ![k].value = @ + transfer], i + 1, x1)
             ELSE skewFrom(arr, i + 1, x1)
    ELSE skewFrom(arr, i + 1, x)

extractPuzzleBag(pieces) ==
    [i \in 1..Len(pieces) |->
        GamePiece(pieces[i].id, pieces[i].shape, pieces[i].value, 0, FALSE)]

\* the decoy shapes: one draw per decoy among the shapes still allowed
RECURSIVE decoyShapes(_, _, _)
decoyShapes(count, existingMonominoes, x) ==
    IF count <= 0 THEN [arr |-> <<>>, rng |-> x]
    ELSE LET availableShapes ==
                 FilterSeq(ALL_SHAPES,
                           {sh \in Range(ALL_SHAPES) : sh # "I1" \/ existingMonominoes = 0})
             x1   == rngNext(x)
             sh1  == availableShapes[randomInt(x1, Len(availableShapes)) + 1]
             rest == decoyShapes(count - 1, existingMonominoes, x1)
         IN  [arr |-> <<sh1>> \o rest.arr, rng |-> rest.rng]

\* the decoy pieces: one value draw per decoy, ids decoy1, decoy2, ...
RECURSIVE decoyPieces(_, _, _)
decoyPieces(shapes, index, x) ==
    IF index > Len(shapes) THEN [arr |-> <<>>, rng |-> x]
    ELSE LET x1   == rngNext(x)
             one  == GamePiece("decoy" \o ToString(index), shapes[index],
                               randomInt(x1, 4) + 1, 0, FALSE)
             rest == decoyPieces(shapes, index + 1, x1)
         IN  [arr |-> <<one>> \o rest.arr, rng |-> rest.rng]

\* a mutation of addDecoyPieces: the solution bag is dropped, only decoys remain
addDecoyPiecesOnly(bag, count, x) ==
    LET shapes == decoyShapes(count, countMonominoes(bag), x)
        decoys == decoyPieces(shapes.arr, 1, shapes.rng)
    IN  shuffleArray(decoys.arr, decoys.rng)

addDecoyPieces(bag, count, x) ==
    LET shapes == decoyShapes(count, countMonominoes(bag), x)
        decoys == decoyPieces(shapes.arr, 1, shapes.rng)
    IN  shuffleArray(bag \o decoys.arr, decoys.rng)

\* the loop has ended: the skew pass of assignPieceValues, then the rest of
\* generateLevel up to its return
generateLevelFinish ==
    /\ gpc = "assign"
    /\ assignedSum >= targetSum
    /\ LET skewed        == skewFrom(piecesCopy, 1, rng)
           valuedPieces  == skewed.arr
           solutionBag   == extractPuzzleBag(valuedPieces)
           fullBag       == addDecoyPieces(solutionBag, decoyCount, skewed.rng)
       IN  /\ piecesCopy' = valuedPieces
           /\ rng' = fullBag.rng
           /\ genLevel' =
                [id |-> "date",
                 board |-> [rows |-> 5, cols |-> 5],
                 target |-> targetSum,
                 constraints |-> [monomino_cap |-> 1, max_leftovers |-> decoyCount + 2],
                 bag |-> fullBag.arr,
                 solution |->
                   [pieceIds |-> [i \in 1..Len(solutionBag) |-> solutionBag[i].id],
                    placements |-> [i \in 1..Len(valuedPieces) |->
                        [pieceId |-> valuedPieces[i].id,
                         row |-> valuedPieces[i].position.y,
                         col |-> valuedPieces[i].position.x,
                         rotation |-> valuedPieces[i].rotation,
                         flipped |-> valuedPieces[i].flipped]],
                    finalSum |-> SumSeq([i \in 1..Len(valuedPieces) |-> valuedPieces[i].value]),
                    cellsCovered |-> totalCellsOf(valuedPieces)]]
    /\ gpc' = "done"
    /\ UNCHANGED <<targetSum, decoyCount, solvedBoard, solvedPieces, pieceIdCounter,
                   frames, assignedSum, winResult>>
    /\ UNCHANGED <<storeVars, fnVars>>

(***************************************************************************)
(* Winnability checker (simpleWinnabilityChecker.ts)                       *)
(***************************************************************************)
HasSolution(lvl) == "solution" \in DOMAIN lvl

\* Array.prototype.sort (stable) by sign * value: sign 1 ascending, -1 descending
RECURSIVE insertByValue(_, _, _)
insertByValue(sorted, p, sign) ==
    IF Len(sorted) = 0 THEN <<p>>
    ELSE IF sign * Head(sorted).value <= sign * p.value
    THEN <<Head(sorted)>> \o insertByValue(Tail(sorted), p, sign)
    ELSE <<p>> \o sorted

RECURSIVE sortByValue(_, _)
sortByValue(pieces, sign) ==
    IF Len(pieces) = 0 THEN <<>>
    ELSE insertByValue(sortByValue(SubSeq(pieces, 1, Len(pieces) - 1), sign),
                       pieces[Len(pieces)], sign)

firstN(arr, n) == SubSeq(arr, 1, MinNum(n, Len(arr)))

bagCells(bag) == SumSeq([i \in 1..Len(bag) |-> SHAPE_SIZES[bag[i].shape]])

\* level.bag as performQuickChecks leaves it: both sorts are in place
bagAfterQuickChecks(lvl) ==
    IF bagCells(lvl.bag) < 25 THEN lvl.bag
    ELSE sortByValue(sortByValue(lvl.bag, 1), 0 - 1)

\* a mutation of performQuickChecks: the upper end of the sum range is not tested
performQuickChecksNoMax(lvl) ==
    LET totalCells == bagCells(lvl.bag)
        minSum     == calculateSum(firstN(sortByValue(lvl.bag, 1), 7))
        monos      == countMonominoes(lvl.bag)
    IN  IF totalCells < 25
        THEN [isValid |-> FALSE, reason |-> "Not enough pieces to cover board"]
        ELSE IF lvl.target < minSum
        THEN [isValid |-> FALSE, reason |-> "Target outside possible range"]
        ELSE IF monos > lvl.constraints.monomino_cap
        THEN [isValid |-> FALSE, reason |-> "Too many monominoes"]
        ELSE [isValid |-> TRUE, reason |-> Undefined]

performQuickChecks(lvl) ==
    LET totalCells == bagCells(lvl.bag)
        ascending  == sortByValue(lvl.bag, 1)
        minSum     == calculateSum(firstN(ascending, 7))
        descending == sortByValue(ascending, 0 - 1)
        maxSum     == calculateSum(firstN(descending, 25))
        monos      == countMonominoes(lvl.bag)
    IN  IF totalCells < 25
        THEN [isValid |-> FALSE,
              reason |-> "Not enough pieces to cover board (" \o ToString(totalCells)
                           \o "/25 cells)"]
        ELSE IF lvl.target < minSum \/ lvl.target > maxSum
        THEN [isValid |-> FALSE,
              reason |-> "Target " \o ToString(lvl.target) \o " outside possible range ["
                           \o ToString(minSum) \o ", " \o ToString(maxSum) \o "]"]
        ELSE IF monos > lvl.constraints.monomino_cap
        THEN [isValid |-> FALSE,
              reason |-> "Too many monominoes (" \o ToString(monos) \o "/"
                           \o ToString(lvl.constraints.monomino_cap) \o ")"]
        ELSE [isValid |-> TRUE, reason |-> Undefined]

\* tryToSolvePuzzle returns null without searching
tryToSolvePuzzle(lvl) == Null

\* a mutation of canAchieve: the sum is not required to come out exactly
RECURSIVE canAchieveCellsOnly(_, _, _, _, _, _)
canAchieveCellsOnly(pieces, index, cellsLeft, sumLeft, monominosUsed, monominoCap) ==
    IF cellsLeft = 0 THEN TRUE
    ELSE IF index > Len(pieces) \/ cellsLeft < 0 \/ sumLeft < 0 THEN FALSE
    ELSE IF canAchieveCellsOnly(pieces, index + 1, cellsLeft, sumLeft, monominosUsed,
                                monominoCap)
    THEN TRUE
    ELSE IF pieces[index].shape = "I1" /\ monominosUsed >= monominoCap THEN FALSE
    ELSE canAchieveCellsOnly(pieces, index + 1,
                    cellsLeft - SHAPE_SIZES[pieces[index].shape],
                    sumLeft - pieces[index].value,
                    monominosUsed + (IF pieces[index].shape = "I1" THEN 1 ELSE 0),
                    monominoCap)

RECURSIVE canAchieve(_, _, _, _, _, _)
canAchieve(pieces, index, cellsLeft, sumLeft, monominosUsed, monominoCap) ==
    IF cellsLeft = 0 /\ sumLeft = 0 THEN TRUE
    ELSE IF index > Len(pieces) \/ cellsLeft < 0 \/ sumLeft < 0 THEN FALSE
    ELSE IF canAchieve(pieces, index + 1, cellsLeft, sumLeft, monominosUsed, monominoCap)
    THEN TRUE
    ELSE IF pieces[index].shape = "I1" /\ monominosUsed >= monominoCap THEN FALSE
    ELSE canAchieve(pieces, index + 1,
                    cellsLeft - SHAPE_SIZES[pieces[index].shape],
                    sumLeft - pieces[index].value,
                    monominosUsed + (IF pieces[index].shape = "I1" THEN 1 ELSE 0),
                    monominoCap)

checkTheoreticalPossibility(lvl) ==
    canAchieve(lvl.bag, 1, 25, lvl.target, 0, lvl.constraints.monomino_cap)

WinResult(isWinnable, reason, confidence, solutionPieces) ==
    [isWinnable |-> isWinnable, reason |-> reason, confidence |-> confidence,
     solutionPieces |-> solutionPieces]

checkWinnability(lvl) ==
    LET quickCheck == performQuickChecks(lvl)
        sorted     == [lvl EXCEPT !.bag = bagAfterQuickChecks(lvl)]
    IN  IF ~quickCheck.isValid
        THEN WinResult(FALSE, quickCheck.reason, "certain", <<>>)
        ELSE IF HasSolution(lvl)
        THEN WinResult(TRUE, "Puzzle generated with known solution", "certain",
                       lvl.solution.pieceIds)
        ELSE IF tryToSolvePuzzle(sorted) # Null
        THEN WinResult(TRUE, "Solution found through search", "certain", <<>>)
        ELSE IF checkTheoreticalPossibility(sorted)
        THEN WinResult(FALSE, "Could not find solution (may still be solvable)",
                       "unknown", <<>>)
        ELSE WinResult(FALSE, "Puzzle appears impossible based on constraints",
                       "likely", <<>>)

\* checkWinnability is called on the level generateLevel returned
checkGenerated ==
    /\ gpc = "done"
    /\ genLevel # NullLevel
    /\ winResult' = checkWinnability(genLevel)
    /\ genLevel' = [genLevel EXCEPT !.bag = bagAfterQuickChecks(genLevel)]
    /\ gpc' = "checked"
    /\ UNCHANGED <<rng, targetSum, decoyCount, solvedBoard, solvedPieces,
                   pieceIdCounter, frames, piecesCopy, assignedSum>>
    /\ UNCHANGED <<storeVars, fnVars>>

GenNext ==
    \/ backtrackEnter
    \/ backtrackTry
    \/ backtrackRemove
    \/ assignStart
    \/ assignStep
    \/ generateLevelFinish
    \/ checkGenerated

(***************************************************************************)
(* isWinCondition applied to chosen inputs                                 *)
(***************************************************************************)
MaxValue == 3

\* a tiling of the board: an I4 in columns 0..3 of every row, an upright I4 in
\* column 4 and an I1 in the last cell; tileAt is the 1-based index of the tile
tileAt(r, c) == IF c < 4 THEN r + 1 ELSE IF r < 4 THEN 6 ELSE 7

tileShape(i) == IF i = 7 THEN "I1" ELSE "I4"

\* the board with the first k tiles placed, each of value v
boardWithTiles(k, v) ==
    [r \in Idx |-> [c \in Idx |->
        IF tileAt(r, c) <= k
        THEN [pieceId |-> "t" \o ToString(tileAt(r, c)), pieceValue |-> v,
              pieceShape |-> tileShape(tileAt(r, c))]
        ELSE EmptyCell]]

\* the first j tiles as placed pieces, each of value v
piecesOfTiles(j, v) ==
    [i \in 1..j |-> GamePiece("t" \o ToString(i), tileShape(i), v, 0, FALSE)]

WinTargets == {0, 7, 12, 14}

FnIdle ==
    /\ fnPc = "idle"
    /\ fnBoard = EmptyBoard
    /\ fnPieces = <<>>
    /\ fnTarget = 0
    /\ fnResult = FALSE

FnInit ==
    /\ fnPc = "call"
    /\ \E k \in 0..7, j \in 0..7, v \in 1..MaxValue :
         /\ fnBoard = boardWithTiles(k, v)
         /\ fnPieces = piecesOfTiles(j, v)
    /\ fnTarget \in WinTargets
    /\ fnResult = FALSE

callIsWinCondition ==
    /\ fnPc = "call"
    /\ fnResult' = isWinCondition(fnBoard, fnPieces, fnTarget)
    /\ fnPc' = "returned"
    /\ UNCHANGED <<fnBoard, fnPieces, fnTarget>>
    /\ UNCHANGED <<storeVars, genVars, rlVars, ckVars, libVars>>

FnNext == callIsWinCondition

(***************************************************************************)
(* isValidPlacement and validateGameRules applied to chosen inputs         *)
(***************************************************************************)
\* the level's monomino_cap is 1..MaxCap
MaxCap == 2

\* 0..MaxMonos monominoes are already placed
MaxMonos == 2

RuleShapes == {"I1", "I2", "I4", "L4", "T4"}

RulePieces ==
    {GamePiece("test-piece", sh, 2, rot, fl) :
        sh \in RuleShapes, rot \in {0, 90, 180, 270}, fl \in BOOLEAN}

RuleCoords == (0 - 1)..4

\* empty, two rows of I4 placed, and the full tiling
RuleBoards == {boardWithTiles(0, 1), boardWithTiles(2, 1), boardWithTiles(7, 1)}

placedMonominoes(n) == [i \in 1..n |-> GamePiece("m" \o ToString(i), "I1", 3, 0, FALSE)]

\* createMockLevel: an empty bag, so no leftover warning arises
RuleLevel(cap) ==
    [id |-> "test-level", target |-> 30,
     constraints |-> [monomino_cap |-> cap, max_leftovers |-> 5], bag |-> <<>>]

NoPlacement == [valid |-> FALSE]

NoCheck == [valid |-> FALSE]

RlIdle ==
    /\ rlPc = "idle"
    /\ rlPiece = NullPiece
    /\ rlRow = 0
    /\ rlCol = 0
    /\ rlBoard = EmptyBoard
    /\ rlPlaced = <<>>
    /\ rlLevel = NullLevel
    /\ rlPlacement = NoPlacement
    /\ rlCheck = NoCheck

RlInit ==
    /\ rlPc = "call"
    /\ rlPiece \in RulePieces
    /\ rlRow \in RuleCoords
    /\ rlCol \in RuleCoords
    /\ rlBoard \in RuleBoards
    /\ \E n \in 0..MaxMonos : rlPlaced = placedMonominoes(n)
    /\ \E cap \in 1..MaxCap : rlLevel = RuleLevel(cap)
    /\ rlPlacement = NoPlacement
    /\ rlCheck = NoCheck

callIsValidPlacement ==
    /\ rlPc = "call"
    /\ rlPlacement' = isValidPlacement(rlPiece, rlRow, rlCol, rlBoard,
                                       countMonominoes(rlPlaced))
    /\ rlPc' = "placement"
    /\ UNCHANGED <<rlPiece, rlRow, rlCol, rlBoard, rlPlaced, rlLevel, rlCheck>>
    /\ UNCHANGED <<storeVars, genVars, winVars, ckVars, libVars>>

callValidateGameRules ==
    /\ rlPc = "call"
    /\ rlCheck' = validateGameRules(rlPiece, rlRow, rlCol, rlBoard, rlPlaced, rlLevel)
    /\ rlPc' = "rules"
    /\ UNCHANGED <<rlPiece, rlRow, rlCol, rlBoard, rlPlaced, rlLevel, rlPlacement>>
    /\ UNCHANGED <<storeVars, genVars, winVars, ckVars, libVars>>

RlNext ==
    \/ callIsValidPlacement
    \/ callValidateGameRules

(***************************************************************************)
(* checkWinnability applied to hand-written levels without a solution      *)
(***************************************************************************)
\* targets are FirstTarget..(FirstTarget + TargetSpan)
TargetSpan == 12

FirstTarget == 18

\* the bag of the test level 'test-exact': 26 cells, sum 20
ExactBag ==
    <<GamePiece("p1", "T4", 3, 0, FALSE), GamePiece("p2", "L4", 3, 0, FALSE),
      GamePiece("p3", "I4", 3, 0, FALSE), GamePiece("p4", "O4", 3, 0, FALSE),
      GamePiece("p5", "S4", 3, 0, FALSE), GamePiece("p6", "L3", 2, 0, FALSE),
      GamePiece("p7", "I2", 2, 0, FALSE), GamePiece("p8", "I1", 1, 0, FALSE)>>

\* the bag of the test level 'test-solvable': 26 cells of sum 28 and a decoy
SolvableBag ==
    <<GamePiece("p1", "T4", 4, 0, FALSE), GamePiece("p2", "L4", 3, 0, FALSE),
      GamePiece("p3", "I4", 5, 0, FALSE), GamePiece("p4", "O4", 3, 0, FALSE),
      GamePiece("p5", "S4", 4, 0, FALSE), GamePiece("p6", "L3", 3, 0, FALSE),
      GamePiece("p7", "I2", 2, 0, FALSE), GamePiece("p8", "I1", 4, 0, FALSE),
      GamePiece("p9", "T4", 9, 0, FALSE)>>

\* the pieces of the tiling boardWithTiles(7, MaxValue): exactly 25 cells
TilingBag == piecesOfTiles(7, MaxValue)

\* the first n pieces of a bag, with or without one more monomino in front
CheckBags ==
    {extra \o firstN(base, n) :
        extra \in {<<>>, <<GamePiece("x1", "I1", 2, 0, FALSE)>>},
        base \in {ExactBag, SolvableBag, TilingBag},
        n \in 6..9}

CheckLevel(bag, target) ==
    [id |-> "test-level", board |-> [rows |-> 5, cols |-> 5], target |-> target,
     constraints |-> [monomino_cap |-> 1, max_leftovers |-> 3], bag |-> bag]

CkIdle ==
    /\ ckPc = "idle"
    /\ ckLevel = NullLevel
    /\ ckResult = NoResult

CkInit ==
    /\ ckPc = "call"
    /\ \E bag \in CheckBags, target \in FirstTarget..(FirstTarget + TargetSpan) :
         ckLevel = CheckLevel(bag, target)
    /\ ckResult = NoResult

\* the caller keeps its reference to the level: the sorts inside
\* performQuickChecks reorder the bag it sees
callCheckWinnability ==
    /\ ckPc = "call"
    /\ ckResult' = checkWinnability(ckLevel)
    /\ ckLevel' = [ckLevel EXCEPT !.bag = bagAfterQuickChecks(ckLevel)]
    /\ ckPc' = "returned"
    /\ UNCHANGED <<storeVars, genVars, winVars, rlVars, libVars>>

CkNext == callCheckWinnability

(***************************************************************************)
(* The game-flow store (gameFlowStore.ts): move history, undo/redo, stats   *)
(* The clock-based statistics (timeElapsed, bestTime, averageMoves) and the *)
(* pause, hint and rule-check fields are left out.                          *)
(***************************************************************************)
MaxFlowMoves == 4

MaxUndos == 3

initialStats == [totalMoves |-> 0, undoCount |-> 0, puzzlesSolved |-> 0]

\* currentAnalysis: null
NoAnalysis == [absent |-> TRUE]

FlowInit ==
    /\ moveHistory = <<>>
    /\ currentMoveIndex = 0 - 1
    /\ gameStats = initialStats
    /\ currentAnalysis = NoAnalysis
    /\ moveClock = 0

FlowIdle == FlowInit

\* the moves the game records
FlowMoves ==
    {[type |-> "place", piece |-> GamePiece("piece1", "T4", 3, 0, FALSE)],
     [type |-> "remove", piece |-> GamePiece("piece2", "L4", 4, 0, FALSE)],
     [type |-> "transform", piece |-> GamePiece("piece3", "I4", 5, 0, FALSE)]}

FlowLevel ==
    [id |-> "test-level", board |-> [rows |-> 5, cols |-> 5], target |-> 7 * MaxValue,
     constraints |-> [monomino_cap |-> 1, max_leftovers |-> 5], bag |-> <<>>]

\* the game states handed to updateAnalysis: none, six or all seven tiles placed
FlowGameStates ==
    {[level |-> lvl, board |-> boardWithTiles(k, MaxValue),
      placedPieces |-> piecesOfTiles(k, MaxValue)] :
        lvl \in {NullLevel, FlowLevel}, k \in {0, 6, 7}}

\* analyzeWinCondition, without the texts and the percentages
analyzeWinCondition(brd, placed, target) ==
    LET hasFullCoverage == getBoardCoverage(brd) = 25
        hasCorrectSum   == calculateSum(placed) = target
    IN  [winState |-> [isWon |-> hasFullCoverage /\ hasCorrectSum,
                       hasFullCoverage |-> hasFullCoverage,
                       hasCorrectSum |-> hasCorrectSum]]

startGame ==
    /\ moveHistory' = <<>>
    /\ currentMoveIndex' = 0 - 1
    /\ currentAnalysis' = NoAnalysis
    /\ gameStats' = [gameStats EXCEPT !.totalMoves = 0]
    /\ UNCHANGED moveClock
    /\ UNCHANGED <<storeVars, genVars, winVars, rlVars, ckVars, trVars>>

\* a mutation of the slice in recordMove: the undone moves are kept
sliceToCurrentKeepsAll(history, index) == history

\* state.moveHistory.slice(0, state.currentMoveIndex + 1)
sliceToCurrent(history, index) ==
    [i \in 1..MinNum(index + 1, Len(history)) |-> history[i]]

recordMove(moveData) ==
    /\ moveClock < MaxFlowMoves
    /\ LET move       == [id |-> moveClock + 1, type |-> moveData.type,
                          piece |-> moveData.piece]
           newHistory == Append(sliceToCurrent(moveHistory, currentMoveIndex), move)
       IN  /\ moveHistory' = newHistory
           /\ currentMoveIndex' = Len(newHistory) - 1
           /\ gameStats' = [gameStats EXCEPT !.totalMoves = gameStats.totalMoves + 1]
    /\ moveClock' = moveClock + 1
    /\ UNCHANGED currentAnalysis
    /\ UNCHANGED <<storeVars, genVars, winVars, rlVars, ckVars, trVars>>

undoMove ==
    /\ gameStats.undoCount < MaxUndos
    /\ IF currentMoveIndex >= 0
       THEN /\ currentMoveIndex' = currentMoveIndex - 1
            /\ gameStats' = [gameStats EXCEPT !.undoCount = gameStats.undoCount + 1]
       ELSE UNCHANGED <<currentMoveIndex, gameStats>>
    /\ UNCHANGED <<moveHistory, currentAnalysis, moveClock>>
    /\ UNCHANGED <<storeVars, genVars, winVars, rlVars, ckVars, trVars>>

redoMove ==
    /\ IF currentMoveIndex < Len(moveHistory) - 1
       THEN currentMoveIndex' = currentMoveIndex + 1
       ELSE UNCHANGED currentMoveIndex
    /\ UNCHANGED <<moveHistory, gameStats, currentAnalysis, moveClock>>
    /\ UNCHANGED <<storeVars, genVars, winVars, rlVars, ckVars, trVars>>

canUndo == currentMoveIndex >= 0

canRedo == currentMoveIndex < Len(moveHistory) - 1

\* the analysis is stored first; the test for a first win then reads
\* get().currentAnalysis, which is the analysis just stored
updateAnalysis(gameState) ==
    /\ IF gameState.level = NullLevel
       THEN UNCHANGED <<currentAnalysis, gameStats>>
       ELSE LET analysis == analyzeWinCondition(gameState.board, gameState.placedPieces,
                                                gameState.level.target)
                stored   == analysis
            IN  /\ currentAnalysis' = analysis
                /\ IF analysis.winState.isWon /\ ~stored.winState.isWon
                   THEN gameStats' = [gameStats EXCEPT
                                        !.puzzlesSolved = gameStats.puzzlesSolved + 1]
                   ELSE UNCHANGED gameStats
    /\ UNCHANGED <<moveHistory, currentMoveIndex, moveClock>>
    /\ UNCHANGED <<storeVars, genVars, winVars, rlVars, ckVars, trVars>>

resetStats ==
    /\ gameStats' = initialStats
    /\ UNCHANGED <<moveHistory, currentMoveIndex, currentAnalysis, moveClock>>
    /\ UNCHANGED <<storeVars, genVars, winVars, rlVars, ckVars, trVars>>

FlowNext ==
    \/ startGame
    \/ \E moveData \in FlowMoves : recordMove(moveData)
    \/ undoMove
    \/ redoMove
    \/ \E gameState \in FlowGameStates : updateAnalysis(gameState)
    \/ resetStats

(***************************************************************************)
(* getTransformedShape applied along four successive 90-degree rotations    *)
(***************************************************************************)
\* starting rotations are 90 * k and 90 * k + 45 for k in -MaxTurns..(MaxTurns + 4)
MaxTurns == 5

StartRotations ==
    {90 * k + d : k \in (0 - MaxTurns)..(MaxTurns + 4), d \in {0, 45}}

TrIdle ==
    /\ trShape = "I1"
    /\ trFlipped = FALSE
    /\ trRotation = 0
    /\ trTurns = 0
    /\ trStart = <<>>
    /\ trCoords = <<>>
    /\ trTurned = <<>>

TrInit ==
    /\ trShape \in Range(ALL_SHAPES)
    /\ trFlipped \in BOOLEAN
    /\ trRotation \in StartRotations
    /\ trTurns = 0
    /\ trStart = getTransformedShape(POLYOMINO_SHAPES[trShape], trRotation, trFlipped)
    /\ trCoords = trStart
    /\ trTurned = trStart

\* one more quarter turn: the rotation grows by 90 and the shape is derived
\* again, and the coordinates in hand are turned by rotatePiece90
rotateOnce ==
    /\ trStart # <<>>
    /\ trTurns < 4
    /\ trRotation' = trRotation + 90
    /\ trTurns' = trTurns + 1
    /\ trCoords' = getTransformedShape(POLYOMINO_SHAPES[trShape], trRotation + 90, trFlipped)
    /\ trTurned' = normalizeCoordinates(rotatePiece90(trTurned))
    /\ UNCHANGED <<trShape, trFlipped, trStart>>
    /\ UNCHANGED <<storeVars, genVars, winVars, rlVars, ckVars, flowVars>>

TrNext == rotateOnce

CallsIdle == FnIdle /\ RlIdle /\ CkIdle /\ TrIdle /\ FlowIdle

\* the store before any level is loaded, the generator and the isolated calls idle
Init == StoreInit /\ GenIdle /\ CallsIdle

InitGen == StoreInit /\ GenInit /\ CallsIdle

InitWin == StoreInit /\ GenIdle /\ FnInit /\ RlIdle /\ CkIdle /\ TrIdle /\ FlowIdle

InitRules == StoreInit /\ GenIdle /\ FnIdle /\ RlInit /\ CkIdle /\ TrIdle /\ FlowIdle

InitCheck == StoreInit /\ GenIdle /\ FnIdle /\ RlIdle /\ CkInit /\ TrIdle /\ FlowIdle

InitFlow == StoreInit /\ GenIdle /\ FnIdle /\ RlIdle /\ CkIdle /\ TrIdle /\ FlowInit

InitTransform == StoreInit /\ GenIdle /\ FnIdle /\ RlIdle /\ CkIdle /\ TrInit /\ FlowIdle

Spec == Init /\ [][StoreNext]_vars

SpecGen == InitGen /\ [][GenNext]_vars

SpecRules == InitRules /\ [][RlNext]_vars

SpecCheck == InitCheck /\ [][CkNext]_vars

SpecWin == InitWin /\ [][FnNext]_vars

SpecFlow == InitFlow /\ [][FlowNext]_vars

SpecTransform == InitTransform /\ [][TrNext]_vars

(***************************************************************************)
(* Properties of isWinCondition                                            *)
(***************************************************************************)
coveredCount(brd) ==
    Cardinality({rc \in Idx \X Idx : brd[rc[1]][rc[2]].pieceId # Undefined})

RECURSIVE valueTotal(_)
valueTotal(pieces) ==
    IF pieces = <<>> THEN 0 ELSE Head(pieces).value + valueTotal(Tail(pieces))

\* C1: isWinCondition returns true exactly when 25 cells carry a pieceId and
\* the placed pieces' values add up to the target; full coverage with another
\* sum, or the exact sum with fewer than 25 cells, is not a win
C1_WinIffCoverageAndSum ==
    fnPc = "returned" =>
      /\ fnResult = (coveredCount(fnBoard) = 25 /\ valueTotal(fnPieces) = fnTarget)
      /\ (coveredCount(fnBoard) = 25 /\ valueTotal(fnPieces) # fnTarget) => ~fnResult
      /\ (coveredCount(fnBoard) < 25 /\ valueTotal(fnPieces) = fnTarget) => ~fnResult

\* a win: the full board with seven pieces of value 2 against target 14
C1_Witness ==
    /\ fnPc = "returned"
    /\ fnResult
    /\ coveredCount(fnBoard) = 25
    /\ valueTotal(fnPieces) = 14

\* the exact sum on a board with a hole is refused
C1_WitnessNearMiss ==
    /\ fnPc = "returned"
    /\ ~fnResult
    /\ coveredCount(fnBoard) = 24
    /\ valueTotal(fnPieces) = fnTarget

(***************************************************************************)
(* Properties of isValidPlacement and validateGameRules                    *)
(***************************************************************************)
footprint == Range(getOccupiedCells(rlPiece, rlRow, rlCol))

insideBoard(cell) == cell.x \in Idx /\ cell.y \in Idx

freeCell(cell) == insideBoard(cell) /\ rlBoard[cell.y][cell.x].pieceId = Undefined

takenCell(cell) == insideBoard(cell) /\ rlBoard[cell.y][cell.x].pieceId # Undefined

placedOnes == Cardinality({i \in 1..Len(rlPlaced) : rlPlaced[i].shape = "I1"})

C17_RulesUseLevelCap ==
    (/\ rlPc = "rules"
     /\ rlPiece.shape = "I1"
     /\ \A cell \in footprint : freeCell(cell)
     /\ placedOnes < rlLevel.constraints.monomino_cap)
    =>
      /\ rlCheck.valid
      /\ placedOnes = rlLevel.constraints.monomino_cap - 1 =>
           /\ Len(rlCheck.warnings) = 1
           /\ rlCheck.warnings[1].type = "monomino_cap"
           /\ rlCheck.warnings[1].message = "This will be your last allowed monomino"

\* C18: when a footprint of a piece other than I1 has a cell off the board and
\* an occupied cell on it, the reason given is the boundary one
C18_BoundaryBeforeOverlap ==
    (/\ rlPc = "placement"
     /\ rlPiece.shape # "I1"
     /\ \E cell \in footprint : ~insideBoard(cell)
     /\ \E cell \in footprint : takenCell(cell))
    => rlPlacement.reason = "Piece extends beyond board boundaries"

\* C19: an I1 proposed at a free cell when the placed I1 pieces have reached
\* the level's cap is invalid with exactly one violation, 'monomino_cap' of
\* severity 'error'
C19_CapReachedSingleViolation ==
    (/\ rlPc = "rules"
     /\ rlPiece.shape = "I1"
     /\ \A cell \in footprint : freeCell(cell)
     /\ placedOnes >= rlLevel.constraints.monomino_cap)
    =>
      /\ ~rlCheck.valid
      /\ Len(rlCheck.violations) = 1
      /\ rlCheck.violations[1].type = "monomino_cap"
      /\ rlCheck.violations[1].severity = "error"

(***************************************************************************)
(* Properties of the level generator and the winnability checker           *)
(***************************************************************************)
Returned == gpc \in {"done", "checked"} /\ genLevel # NullLevel

bagIds(lvl) == {lvl.bag[i].id : i \in 1..Len(lvl.bag)}

solutionSum(lvl) ==
    valueTotal(SelectSeq(lvl.bag, LAMBDA p : p.id \in Range(lvl.solution.pieceIds)))

\* C8: a returned level's solution has finalSum equal to the target and to the
\* sum of the solution pieces' values in the bag, covers 25 cells, and names
\* only ids that are in the bag
C8_SolutionMatchesLevel ==
    Returned =>
      /\ genLevel.solution.finalSum = genLevel.target
      /\ genLevel.solution.finalSum = solutionSum(genLevel)
      /\ genLevel.solution.cellsCovered = 25
      /\ Range(genLevel.solution.pieceIds) \subseteq bagIds(genLevel)

\* a level for target 30 with two decoys has been returned
C8_Witness ==
    /\ Returned
    /\ genLevel.target = 30
    /\ Len(genLevel.bag) = Len(genLevel.solution.pieceIds) + 2
    /\ genLevel.solution.finalSum = 30

\* assignPieceValues has been called on a full tiling and generateLevel is over
AssignOver == gpc \in {"done", "checked"} /\ getEmptyCells(solvedBoard) = 0

\* C13: for a target S with N <= S <= 9N the values returned are all in 1..9
\* and add up to S, also after the skew pass; any other target is rejected
\* with an error and no values are returned
C13_ValuesInRangeSumToTarget ==
    AssignOver =>
      LET N == Len(solvedPieces)
      IN  IF N <= targetSum /\ targetSum <= 9 * N
          THEN /\ Len(piecesCopy) = N
               /\ \A i \in 1..N : piecesCopy[i].value \in 1..9
               /\ valueTotal(piecesCopy) = targetSum
               /\ genLevel # NullLevel
          ELSE /\ piecesCopy = <<>>
               /\ genLevel = NullLevel

\* values for target 30 have been returned, one of them above 4 and one below
C13_Witness ==
    /\ AssignOver
    /\ targetSum = 30
    /\ valueTotal(piecesCopy) = 30
    /\ \E i \in 1..Len(piecesCopy) : piecesCopy[i].value > 4
    /\ \E i \in 1..Len(piecesCopy) : piecesCopy[i].value < 4

\* a target above 9N has been rejected
C13_WitnessRejected ==
    /\ AssignOver
    /\ targetSum > 9 * Len(solvedPieces)
    /\ genLevel = NullLevel

\* the skew pass is about to move value from a high piece to a low one
C13_WitnessSkew ==
    /\ gpc = "assign"
    /\ assignedSum >= targetSum
    /\ skewFrom(piecesCopy, 1, rng).arr # piecesCopy

\* C9: the number of I1 pieces in a returned level's bag never exceeds the
\* level's monomino_cap
C9_BagMonominoesWithinCap ==
    Returned =>
      Cardinality({i \in 1..Len(genLevel.bag) : genLevel.bag[i].shape = "I1"})
        <= genLevel.constraints.monomino_cap

\* C10: checkWinnability answers every level that carries a stored solution
\* with isWinnable = true, confidence 'certain' and the known-solution reason
C10_StoredSolutionIsWinnable ==
    (gpc = "checked" /\ HasSolution(genLevel)) =>
      /\ winResult.isWinnable
      /\ winResult.confidence = "certain"
      /\ winResult.reason = "Puzzle generated with known solution"

\* C16: checkWinnability leaves the level it is given unchanged, the order of
\* level.bag included
C16_CheckWinnabilityKeepsLevel ==
    [][(ckPc = "call" /\ ckPc' = "returned") => ckLevel' = ckLevel]_vars

chosen(lvl, idSet) == SelectSeq(lvl.bag, LAMBDA p : p.id \in idSet)

RECURSIVE cellTotal(_)
cellTotal(pieces) ==
    IF pieces = <<>> THEN 0
    ELSE Len(POLYOMINO_SHAPES[Head(pieces).shape]) + cellTotal(Tail(pieces))

onesIn(pieces) == Len(SelectSeq(pieces, LAMBDA p : p.shape = "I1"))

\* some subset of the bag has 25 cells, the target as its sum and no more
\* monominoes than the cap
subsetExists(lvl) ==
    \E idSet \in SUBSET bagIds(lvl) :
        /\ cellTotal(chosen(lvl, idSet)) = 25
        /\ valueTotal(chosen(lvl, idSet)) = lvl.target
        /\ onesIn(chosen(lvl, idSet)) <= lvl.constraints.monomino_cap

\* the three quick checks, stated over subsets of the bag: enough cells, the
\* target between the cheapest seven pieces and the whole bag, monominoes
\* within the cap
passesQuickChecks(lvl) ==
    LET k == IF Len(lvl.bag) < 7 THEN Len(lvl.bag) ELSE 7
    IN  /\ cellTotal(lvl.bag) >= 25
        /\ \E idSet \in SUBSET bagIds(lvl) :
              Cardinality(idSet) = k /\ valueTotal(chosen(lvl, idSet)) <= lvl.target
        /\ lvl.target <= valueTotal(lvl.bag)
        /\ onesIn(lvl.bag) <= lvl.constraints.monomino_cap

\* C20: for a level without a stored solution that passes the quick checks the
\* confidence is 'unknown' exactly when a subset of the bag has 25 cells, the
\* target as its sum and at most monomino_cap monominoes, and 'likely' exactly
\* when there is none
C20_UnknownIffSubsetExists ==
    (ckPc = "returned" /\ ~HasSolution(ckLevel) /\ passesQuickChecks(ckLevel)) =>
      /\ ~ckResult.isWinnable
      /\ ckResult.confidence = "unknown" <=> subsetExists(ckLevel)
      /\ ckResult.confidence = "likely" <=> ~subsetExists(ckLevel)

\* the bag of 'test-exact' against target 19: all pieces but the monomino fit
C20_Witness ==
    /\ ckPc = "returned"
    /\ ckResult.confidence = "unknown"
    /\ ckLevel.target = 19
    /\ Len(ckLevel.bag) = 8
    /\ subsetExists(ckLevel)

\* a level that passes the quick checks and has no fitting subset
C20_WitnessLikely ==
    /\ ckPc = "returned"
    /\ passesQuickChecks(ckLevel)
    /\ ckResult.confidence = "likely"

\* the bag holds the seven tiles of boardWithTiles(7, MaxValue), which cover the
\* whole board, and the target is the sum of their values
isTilingLevel(lvl) ==
    /\ getBoardCoverage(boardWithTiles(7, MaxValue)) = BOARD_CELLS
    /\ Range(lvl.bag) = Range(TilingBag)
    /\ lvl.target = valueTotal(TilingBag)

\* C21: for a level without a stored solution that passes the quick checks
\* and whose bag is exactly the pieces of a full tiling with values summing to
\* the target, checkWinnability returns isWinnable true with confidence
\* 'certain' and the pieces the search found
C21_SearchFindsTiling ==
    (ckPc = "returned" /\ ~HasSolution(ckLevel) /\ passesQuickChecks(ckLevel)
       /\ isTilingLevel(ckLevel)) =>
      /\ ckResult.isWinnable
      /\ ckResult.confidence = "certain"
      /\ Range(ckResult.solutionPieces) = bagIds(ckLevel)

\* C22: a bag with fewer than 25 cells in total, and a bag whose values sum to
\* less than the target, both give isWinnable false with confidence 'certain'
C22_ShortOrPoorBagCertainlyUnwinnable ==
    (ckPc = "returned"
       /\ (cellTotal(ckLevel.bag) < 25 \/ ckLevel.target > valueTotal(ckLevel.bag))) =>
      /\ ~ckResult.isWinnable
      /\ ckResult.confidence = "certain"

\* a bag with too few cells was refused
C22_Witness ==
    /\ ckPc = "returned"
    /\ cellTotal(ckLevel.bag) < 25
    /\ ckResult.confidence = "certain"
    /\ ~ckResult.isWinnable

\* a bag with enough cells and too little value was refused
C22_WitnessSum ==
    /\ ckPc = "returned"
    /\ cellTotal(ckLevel.bag) >= 25
    /\ ckLevel.target > valueTotal(ckLevel.bag)
    /\ ckResult.confidence = "certain"
    /\ ~ckResult.isWinnable

\* the level is winnable: among the bag's pieces are the seven tiles of
\* boardWithTiles(7, MaxValue), which cover the board with one monomino, and
\* the target is the sum of their values
holdsTiling(lvl) ==
    /\ getBoardCoverage(boardWithTiles(7, MaxValue)) = BOARD_CELLS
    /\ Range(TilingBag) \subseteq Range(lvl.bag)
    /\ lvl.target = valueTotal(TilingBag)
    /\ onesIn(TilingBag) <= lvl.constraints.monomino_cap

\* C28: checkWinnability never returns isWinnable false with confidence
\* 'certain' for a level that is winnable, monominoes left unused in the bag
\* included
C28_CertainFalseOnlyIfUnwinnable ==
    (ckPc = "returned" /\ holdsTiling(ckLevel)) =>
      ~(~ckResult.isWinnable /\ ckResult.confidence = "certain")

\* the place of the search in the tree of options: the option index of every
\* activation of backtrack(), doubled, plus one for the innermost activation
\* once the option it holds has been given up or is about to be
searchKey(fr, pc) ==
    [i \in 1..Len(fr) |->
        IF i = Len(fr) /\ pc \in {"try", "remove"} THEN 2 * fr[i].k + 1 ELSE 2 * fr[i].k]

\* a comes before b in the depth-first order of the tree of options
keyBefore(a, b) ==
    \E j \in 1..Len(b) :
        /\ j <= Len(a) + 1
        /\ \A i \in 1..(j - 1) : a[i] = b[i]
        /\ j = Len(a) + 1 \/ a[j] < b[j]

\* C23: generateSolvedBoard always terminates and returns a tiling of all 25
\* cells: every step of the search moves forward in the (finite) depth-first
\* order of the options, the search never returns null, and when it returns
\* the board has no empty cell
C23_TilerReturnsFullBoard ==
    [][(gpc \in {"enter", "try", "remove"}) =>
         (/\ gpc' # "done"
          /\ (gpc' = "tiled" => getEmptyCells(solvedBoard') = 0)
          /\ (gpc' # "tiled" =>
                 (\/ keyBefore(searchKey(frames, gpc), searchKey(frames', gpc'))
                  \/ (searchKey(frames, gpc) = searchKey(frames', gpc')
                        /\ gpc = "remove" /\ gpc' = "try"))))]_vars

\* the tiler has returned a full board
C23_Witness ==
    /\ gpc = "tiled"
    /\ getEmptyCells(solvedBoard) = 0
    /\ cellTotal(solvedPieces) = BOARD_CELLS

\* the stored solution placed step by step on an empty board through
\* isValidPlacement with the running monomino count
RECURSIVE replaySolution(_, _, _, _)
replaySolution(lvl, i, brd, placed) ==
    IF i > Len(lvl.solution.placements)
    THEN [accepted |-> TRUE, board |-> brd, pieces |-> placed]
    ELSE LET pl    == lvl.solution.placements[i]
             piece == [findById(lvl.bag, pl.pieceId) EXCEPT !.rotation = pl.rotation,
                                                            !.flipped = pl.flipped]
             check == isValidPlacement(piece, pl.row, pl.col, brd, countMonominoes(placed))
         IN  IF ~check.valid
             THEN [accepted |-> FALSE, board |-> brd, pieces |-> placed]
             ELSE replaySolution(lvl, i + 1, placePieceOnBoard(brd, piece, pl.row, pl.col),
                                 Append(placed, piece))

\* C27: replaying a returned level's stored solution on an empty board is
\* accepted at every step and ends in a board that satisfies isWinCondition
\* for the level's target
C27_StoredSolutionReplays ==
    Returned =>
      LET replay == replaySolution(genLevel, 1, EmptyBoard, <<>>)
      IN  /\ replay.accepted
          /\ isWinCondition(replay.board, replay.pieces, genLevel.target)

\* a returned level whose solution uses a turned or flipped piece, and a monomino
C27_Witness ==
    /\ Returned
    /\ \E i \in 1..Len(genLevel.solution.placements) :
          genLevel.solution.placements[i].rotation # 0
            \/ genLevel.solution.placements[i].flipped
    /\ \E i \in 1..Len(genLevel.solution.placements) :
          findById(genLevel.bag, genLevel.solution.placements[i].pieceId).shape = "I1"
    /\ replaySolution(genLevel, 1, EmptyBoard, <<>>).accepted

\* C30: while the tiler runs, the cells that carry a pieceId are exactly the
\* disjoint union of the occupiedCells of the stacked pieces, each under its
\* piece's id; the ids are p1, p2, ... in stack order and the counter is one
\* past the stack; each stacked piece is the option its frame has chosen, so a
\* removePiece leaves board, stack and counter as they were before the
\* placePiece it undoes
C30_BoardIsUnionOfStack ==
    gpc \in {"enter", "try", "remove", "tiled"} =>
      /\ pieceIdCounter = Len(solvedPieces) + 1
      /\ \A i \in 1..Len(solvedPieces) : solvedPieces[i].id = "p" \o ToString(i)
      /\ \A i, j \in 1..Len(solvedPieces) :
            i # j => Range(solvedPieces[i].occupiedCells)
                       \cap Range(solvedPieces[j].occupiedCells) = {}
      /\ \A r, c \in Idx :
            IF \E i \in 1..Len(solvedPieces) :
                  XY(c, r) \in Range(solvedPieces[i].occupiedCells)
            THEN \E i \in 1..Len(solvedPieces) :
                   /\ XY(c, r) \in Range(solvedPieces[i].occupiedCells)
                   /\ solvedBoard[r][c].pieceId = solvedPieces[i].id
            ELSE solvedBoard[r][c] = EmptyCell
      /\ \A i \in 1..Len(frames) :
            i <= Len(solvedPieces) =>
              /\ solvedPieces[i].position = XY(frames[i].col, frames[i].row)
              /\ solvedPieces[i].shape = allOptions(frames[i].shapes)[frames[i].k].shape

\* a branch has been undone: the frame on top has given up at least one option
C30_Witness ==
    /\ gpc = "try"
    /\ frames[Len(frames)].k > 0
    /\ Len(solvedPieces) > 0
    /\ Len(frames) = Len(solvedPieces) + 1

(***************************************************************************)
(* Properties of the game store                                            *)
(***************************************************************************)
Loaded == level # NullLevel

cellsOf(id) ==
    {cell \in {XY(c, r) : r \in Idx, c \in Idx} : board[cell.y][cell.x].pieceId = id}

entriesOf(pieces, id) == {i \in 1..Len(pieces) : pieces[i].id = id}

\* C2: every board cell that carries a pieceId references exactly one entry of
\* placedPieces whose occupiedCells include the cell, and every cell of a placed
\* piece's occupiedCells carries that piece's id on the board.
C2_BoardMatchesPlacedPieces ==
    Loaded =>
      /\ \A r \in Idx, c \in Idx :
            Truthy(board[r][c].pieceId) =>
               /\ Cardinality(entriesOf(placedPieces, board[r][c].pieceId)) = 1
               /\ \A i \in entriesOf(placedPieces, board[r][c].pieceId) :
                     XY(c, r) \in Range(placedPieces[i].occupiedCells)
      /\ \A i \in 1..Len(placedPieces) :
            \A cell \in Range(placedPieces[i].occupiedCells) :
               /\ InBounds(cell)
               /\ board[cell.y][cell.x].pieceId = placedPieces[i].id

\* two pieces are on the board and the last call moved one of them
C2_Witness ==
    /\ Len(placedPieces) = 2
    /\ moveCount = 3
    /\ call = Call("placePiece", "p2", TRUE)
    /\ Cardinality(cellsOf("p2")) = 2
    /\ Cardinality(cellsOf("p1")) = 1

\* C3: trayPieces, placedPieces and the pickedUpPiece holder are pairwise
\* disjoint by piece id.
C3_CollectionsDisjoint ==
    /\ ids(trayPieces) \cap ids(placedPieces) = {}
    /\ pickedUpPiece.id \notin ids(trayPieces)
    /\ pickedUpPiece.id \notin ids(placedPieces)

\* C4: every piece of the loaded level's bag is in trayPieces, in placedPieces
\* or in the pickedUpPiece holder.
C4_NoPieceDisappears ==
    Loaded =>
      \A id \in ids(level.bag) :
         id \in ids(trayPieces) \cup ids(placedPieces) \cup {pickedUpPiece.id}

\* C5: a rejected placePiece leaves board, placedPieces, trayPieces, currentSum,
\* coveredCells, monominoCount, isWon and moveCount (and the level and the
\* pick-up state) exactly as they were.
C5_RejectedPlacementKeepsState ==
    [][(call'.op = "placePiece" /\ ~call'.ret) =>
          UNCHANGED <<level, board, placedPieces, trayPieces, currentSum,
                      coveredCells, monominoCount, isWon, moveCount,
                      pickedUpPiece, pickedUpPieceSource, grabPoint>>]_vars

\* a second monomino was refused while one is on the board
C5_Witness ==
    /\ call.op = "placePiece"
    /\ ~call.ret
    /\ ~lastMoveValid
    /\ lastMoveMessage = "Maximum 1 monomino(s) allowed per level"
    /\ monominoCount = 1

\* C6: when a piece that is on the board is placed again, no cell of its old
\* footprint outside the new footprint still references it, and placedPieces
\* holds exactly one entry for it.
C6_RepositionLeavesNoResidue ==
    [][(call'.op = "placePiece" /\ call'.ret /\ call'.id \in ids(placedPieces)) =>
          LET P      == call'.id
              oldOne == placedPieces[MinOf(entriesOf(placedPieces, P))]
              newOne == placedPieces'[MinOf(entriesOf(placedPieces', P))]
          IN  /\ Cardinality(entriesOf(placedPieces', P)) = 1
              /\ \A cell \in Range(oldOne.occupiedCells) :
                    cell \notin Range(newOne.occupiedCells) =>
                       board'[cell.y][cell.x].pieceId # P
              /\ \A r \in Idx, c \in Idx :
                    board'[r][c].pieceId = P <=>
                       XY(c, r) \in Range(getOccupiedCells(AsGamePiece(newOne),
                                            newOne.position.y, newOne.position.x))]_vars

\* the only piece on the board has just been placed a second time
C6_Witness ==
    /\ call.op = "placePiece"
    /\ call.ret
    /\ moveCount = 2
    /\ Len(placedPieces) = 1
    /\ Len(trayPieces) = 2

RECURSIVE valueOfFirst(_, _)
valueOfFirst(pieces, n) ==
    IF n = 0 THEN 0 ELSE pieces[n].value + valueOfFirst(pieces, n - 1)

\* C7: the derived scalars agree with a fresh recomputation from board and
\* placedPieces.
C7_DerivedScalarsFresh ==
    Loaded =>
      /\ currentSum = valueOfFirst(placedPieces, Len(placedPieces))
      /\ coveredCells =
           Cardinality({rc \in Idx \X Idx : board[rc[1]][rc[2]].pieceId # Undefined})
      /\ monominoCount = Cardinality(entriesOf([i \in 1..Len(placedPieces) |->
                              [id |-> placedPieces[i].shape]], "I1"))
      /\ isWon = (coveredCells = BOARD_CELLS /\ currentSum = level.target)

\* the spec's end-to-end scenario: a monomino and a domino are placed, the sum
\* is the target and three cells are covered
C7_Witness ==
    /\ Loaded
    /\ currentSum = level.target
    /\ coveredCells = 3
    /\ monominoCount = 1
    /\ ~isWon

\* C12: every entry of placedPieces caches exactly the cells that its position,
\* shape, rotation and flip give, as many as the shape has cells
C12_OccupiedCellsMatchOrientation ==
    \A i \in 1..Len(placedPieces) :
        LET p == placedPieces[i]
        IN  /\ Len(p.occupiedCells) = SHAPE_SIZES[p.shape]
            /\ Range(p.occupiedCells) =
                 Range(applyTransform(
                         getTransformedShape(POLYOMINO_SHAPES[p.shape], p.rotation, p.flipped),
                         p.position.x, p.position.y))

\* C14: no piece id is in both trayPieces and placedPieces
C14_TrayAndPlacedDisjoint ==
    {trayPieces[i].id : i \in 1..Len(trayPieces)}
      \cap {placedPieces[i].id : i \in 1..Len(placedPieces)} = {}

\* C15: the I1 pieces among placedPieces never outnumber the level's monomino_cap
C15_PlacedMonominoesWithinCap ==
    Loaded =>
      Cardinality({i \in 1..Len(placedPieces) : placedPieces[i].shape = "I1"})
        <= level.constraints.monomino_cap

\* a monomino is on the board, the other has been refused and stays in the tray
C15_Witness ==
    /\ Loaded
    /\ Cardinality({i \in 1..Len(placedPieces) : placedPieces[i].shape = "I1"}) = 1
    /\ ~lastMoveValid
    /\ lastMoveMessage = "Maximum 1 monomino(s) allowed per level"
    /\ Cardinality({i \in 1..Len(trayPieces) : trayPieces[i].shape = "I1"}) >= 1

\* the footprint of piece at (row, col) lies on the board, meets no other
\* piece's cell and shares a cell with the piece's own cells on the board
overlapsOnlyItself(piece, row, col) ==
    LET cells == Range(getOccupiedCells(piece, row, col))
    IN  /\ \A cell \in cells :
              /\ InBounds(cell)
              /\ board[cell.y][cell.x].pieceId \in {Undefined, piece.id}
        /\ \E cell \in cells : board[cell.y][cell.x].pieceId = piece.id

\* C29: placePiece for a piece that is on the board, at an in-bounds position
\* whose footprint overlaps only the piece's own old cells, is accepted
C29_RepositionIgnoresOwnFootprint ==
    [][\A piece \in PieceInputs, row \in Rows, col \in Cols :
          (/\ level # NullLevel
           /\ pickedUpPiece = NullPiece
           /\ piece.id \in ids(placedPieces)
           /\ piece.id \notin ids(trayPieces)
           /\ overlapsOnlyItself(piece, row, col)
           /\ placePiece(piece, row, col)) => call'.ret]_vars

(***************************************************************************)
(* Properties of the transforms                                            *)
(***************************************************************************)
\* C24: for each shape, either flip and any starting rotation, four
\* successive 90-degree rotations give the normalized coordinate set of the
\* starting orientation again
C24_FourQuarterTurnsAreIdentity ==
    trTurns = 4 =>
      /\ Range(trCoords) = Range(trStart)
      /\ Range(trTurned) = Range(trStart)

\* a flipped L4 started at a negative rotation has gone round once
C24_Witness ==
    /\ trTurns = 4
    /\ trShape = "L4"
    /\ trFlipped
    /\ trRotation - 360 < 0
    /\ Range(trCoords) = Range(trStart)

\* a quarter turn in between gives another coordinate set
C24_WitnessTurned ==
    /\ trTurns = 1
    /\ trRotation > 360
    /\ Range(trCoords) # Range(trStart)
    /\ Range(trCoords) = Range(trTurned)

(***************************************************************************)
(* Properties of the game-flow store                                       *)
(***************************************************************************)
\* C25: recordMove leaves as history the moves up to the current index
\* followed by the new move, with the current index on that last entry and no
\* redo possible; redo becomes possible again only through an undo
C25_RecordAfterUndoTruncates ==
    [][/\ \A moveData \in FlowMoves :
            recordMove(moveData) =>
              /\ Len(moveHistory') = currentMoveIndex + 2
              /\ \A i \in 1..(currentMoveIndex + 1) : moveHistory'[i] = moveHistory[i]
              /\ moveHistory'[currentMoveIndex + 2].type = moveData.type
              /\ moveHistory'[currentMoveIndex + 2].piece = moveData.piece
              /\ \A i \in 1..(currentMoveIndex + 1) :
                    moveHistory'[i].id # moveHistory'[currentMoveIndex + 2].id
              /\ currentMoveIndex' = Len(moveHistory') - 1
              /\ ~(currentMoveIndex' < Len(moveHistory') - 1)
       /\ (~canRedo /\ currentMoveIndex' < Len(moveHistory') - 1) =>
              /\ currentMoveIndex' = currentMoveIndex - 1
              /\ moveHistory' = moveHistory
              /\ gameStats'.undoCount = gameStats.undoCount + 1]_vars

\* a move has been recorded after an undo: the history is shorter than the
\* number of moves recorded and ends with the newest move
C25_Witness ==
    /\ gameStats.undoCount >= 1
    /\ Len(moveHistory) >= 2
    /\ Len(moveHistory) < gameStats.totalMoves
    /\ currentMoveIndex = Len(moveHistory) - 1
    /\ moveHistory[Len(moveHistory)].id = moveClock
    /\ ~canRedo

\* C26: updateAnalysis adds exactly one to gameStats.puzzlesSolved when the
\* analysed state is won and the analysis held before is absent or not won
C26_FirstWinCountsOnce ==
    [][\A gameState \in FlowGameStates :
          (/\ gameState.level # NullLevel
           /\ isWinCondition(gameState.board, gameState.placedPieces, gameState.level.target)
           /\ (currentAnalysis = NoAnalysis \/ ~currentAnalysis.winState.isWon)
           /\ updateAnalysis(gameState)) =>
             gameStats'.puzzlesSolved = gameStats.puzzlesSolved + 1]_vars

====
